---------------------------- MODULE Spec2Model ----------------------------
(***************************************************************************)
(* Laffey Matrix fee-reasonableness calculation of the lemon-law case      *)
(* manager: the tier and rate resolvers of lib/document-utils.ts and       *)
(* calculateLaffeyComparison of app/api/generate/route.ts.                 *)
(*                                                                         *)
(* JavaScript numbers are IEEE 754 doubles: every operation rounds its      *)
(* exact result to 53 bits, ties to even.                                  *)
(***************************************************************************)
EXTENDS Integers, Sequences, FiniteSets, TLC

VARIABLES
    entries,        \* request: billing.entries
    laffeyMatrix,   \* request: laffeyMatrix
    attorneys,      \* request: attorneys (optional roster)
    pc,             \* position inside calculateLaffeyComparison / the resolver
    i,              \* number of entries the first for-of loop has consumed
    byAttorney,     \* the Map, as a sequence in insertion order
    yearsExp,       \* the loop's local yearsExp of the last entry consumed
    result,         \* rows pushed by the second loop
    totalBilled,
    totalLaffey,
    ret,            \* <<>> until the function returns, then <<the result>>
    yearsIn,        \* argument of getLaffeyTier / calculateLaffeyRate
    tierOut,        \* value returned by getLaffeyTier
    rateOut,        \* value returned by calculateLaffeyRate
    doc,            \* <<>> until the POST handler has built its response
    cases,          \* collection 'cases'
    repairOrders,   \* collection 'repairOrders'
    billingEntries, \* collection 'billingEntries'
    costs,          \* collection 'costs'
    indexes,        \* the fields of 'cases' that carry a unique index
    script,         \* the setup or clear-data script in progress
    nextId,         \* number of documents inserted so far (source of _id)
    del,            \* the DELETE /api/cases/[id] request in flight
    resp,           \* the last response a store handler returned
    calls,          \* the locals of each concurrent call of the calculator
    posts,          \* the requests in flight of handlers with several steps
    conn,           \* lib/mongodb.ts: the cached client and the callers
    detect,         \* extract route: form field, text, type, extractor
    req             \* POST /api/generate: the request body's optional parts

vars == <<entries, laffeyMatrix, attorneys, pc, i, byAttorney, yearsExp,
          result, totalBilled, totalLaffey, ret, yearsIn, tierOut, rateOut,
          doc, cases, repairOrders, billingEntries, costs, indexes, script,
          nextId, del, resp, calls, posts, conn, detect, req>>

calcVars == <<i, byAttorney, yearsExp, result, totalBilled, totalLaffey, ret>>
tierVars == <<yearsIn, tierOut, rateOut>>
storeVars == <<cases, repairOrders, billingEntries, costs, indexes, script,
               nextId, del, resp>>
moreVars == <<posts, conn, detect, req>>
extVars == <<doc, storeVars, calls, moreVars>>

---------------------------------------------------------------------------
(* Bounds of the model.                                                    *)
MaxEntries == 3
MaxYears == 100
MaxNegYears == 3
MaxDocs == 2        \* cases inserted by POST /api/cases in a run
MaxChildren == 2    \* documents inserted into the child collections in a run
MaxSetupRuns == 2   \* runs of the setup script in a run

---------------------------------------------------------------------------
(* JavaScript number arithmetic: IEEE 754 binary64, round to nearest, ties  *)
(* to even.  Natural numbers of any size are sequences of limbs in base     *)
(* 2^15, least significant first, without leading zero limbs.               *)

Abs(x) == IF x < 0 THEN -x ELSE x
Sign(x) == IF x < 0 THEN -1 ELSE IF x = 0 THEN 0 ELSE 1

Base == 32768
LimbBits == 15
MantissaBits == 53
SmallBits == 30

Pow2(k) ==
    <<1, 2, 4, 8, 16, 32, 64, 128, 256, 512, 1024, 2048, 4096, 8192, 16384,
      32768, 65536, 131072, 262144, 524288, 1048576, 2097152, 4194304,
      8388608, 16777216, 33554432, 67108864, 134217728, 268435456,
      536870912, 1073741824>>[k + 1]

\* the number of bits of a limb, and of zero bits at its low end
IntBits(n) == Cardinality({k \in 0..(LimbBits - 1) : Pow2(k) <= n})
IntTrailingZeros(n) == Cardinality({k \in 1..LimbBits : n % Pow2(k) = 0})

BTrim(x) ==
    LET used == {k \in 1..Len(x) : x[k] # 0}
    IN  IF used = {} THEN <<>>
        ELSE SubSeq(x, 1, CHOOSE k \in used : \A m \in used : m <= k)

\* 0 <= n < 2^31
BFromInt(n) ==
    BTrim(<<n % Base, (n \div Base) % Base, n \div (Base * Base)>>)

\* x < 2^30
BToInt(x) ==
    IF x = <<>> THEN 0 ELSE IF Len(x) = 1 THEN x[1] ELSE x[1] + Base * x[2]

Limb(x, k) == IF k <= Len(x) THEN x[k] ELSE 0

RECURSIVE BAddFrom(_, _, _, _)
BAddFrom(x, y, k, c) ==
    IF k > Len(x) /\ k > Len(y) THEN (IF c = 0 THEN <<>> ELSE <<c>>)
    ELSE LET s == Limb(x, k) + Limb(y, k) + c
         IN  <<s % Base>> \o BAddFrom(x, y, k + 1, s \div Base)

BAdd(x, y) == BTrim(BAddFrom(x, y, 1, 0))

\* x - y for x >= y
RECURSIVE BSubFrom(_, _, _, _)
BSubFrom(x, y, k, b) ==
    IF k > Len(x) THEN <<>>
    ELSE LET s == Limb(x, k) - Limb(y, k) - b
         IN  <<IF s < 0 THEN s + Base ELSE s>>
             \o BSubFrom(x, y, k + 1, IF s < 0 THEN 1 ELSE 0)

BSub(x, y) == BTrim(BSubFrom(x, y, 1, 0))

RECURSIVE BCmpFrom(_, _, _)
BCmpFrom(x, y, k) ==
    IF k = 0 THEN 0
    ELSE IF x[k] < y[k] THEN -1
    ELSE IF x[k] > y[k] THEN 1
    ELSE BCmpFrom(x, y, k - 1)

BCmp(x, y) ==
    IF Len(x) < Len(y) THEN -1
    ELSE IF Len(x) > Len(y) THEN 1
    ELSE BCmpFrom(x, y, Len(x))

\* x * m for 0 <= m < Base
RECURSIVE BMulSmallFrom(_, _, _, _)
BMulSmallFrom(x, m, k, c) ==
    IF k > Len(x) THEN (IF c = 0 THEN <<>> ELSE <<c>>)
    ELSE LET p == x[k] * m + c
         IN  <<p % Base>> \o BMulSmallFrom(x, m, k + 1, p \div Base)

BMulSmall(x, m) == IF m = 0 THEN <<>> ELSE BMulSmallFrom(x, m, 1, 0)

RECURSIVE BMulFrom(_, _, _)
BMulFrom(x, y, k) ==
    IF k > Len(y) THEN <<>>
    ELSE BAddFrom(BMulSmall(x, y[k]), <<0>> \o BMulFrom(x, y, k + 1), 1, 0)

BMul(x, y) == BTrim(BMulFrom(x, y, 1))

BShl(x, n) ==
    IF x = <<>> THEN <<>>
    ELSE [j \in 1..(n \div LimbBits) |-> 0] \o BMulSmall(x, Pow2(n % LimbBits))

\* x divided by d for 0 < d <= Base, limb by limb from the top: k limbs
\* are left, r is the remainder so far and q the quotient's limbs so far
BDivSmallStep(x, d, st) ==
    [k |-> st.k - 1,
     r |-> (st.r * Base + x[st.k]) % d,
     q |-> <<(st.r * Base + x[st.k]) \div d>> \o st.q]

RECURSIVE BDivSmallFrom(_, _, _)
BDivSmallFrom(x, d, st) ==
    IF st.k = 0 THEN st ELSE BDivSmallFrom(x, d, BDivSmallStep(x, d, st))

BDivSmallResult(st) == [q |-> BTrim(st.q), exact |-> st.r = 0]

BDivSmall(x, d) ==
    BDivSmallResult(BDivSmallFrom(x, d, [k |-> Len(x), r |-> 0, q |-> <<>>]))

BShr(x, n) ==
    IF n \div LimbBits >= Len(x) THEN <<>>
    ELSE BDivSmall(SubSeq(x, n \div LimbBits + 1, Len(x)),
                   Pow2(n % LimbBits)).q

BitLen(x) ==
    IF x = <<>> THEN 0 ELSE LimbBits * (Len(x) - 1) + IntBits(x[Len(x)])

BTrailingZeros(x) ==
    LET k == CHOOSE j \in 1..Len(x) : x[j] # 0 /\ \A m \in 1..(j - 1) : x[m] = 0
    IN  LimbBits * (k - 1) + IntTrailingZeros(x[k])

\* long division by a divisor y of several limbs whose top limb is at least
\* Base / 2, limb by limb from the top.  The digit estimated from the two
\* top limbs of the running remainder is at most two too large.
BLongDivEstimate(y, cur) ==
    LET est == (Limb(cur, Len(y) + 1) * Base + Limb(cur, Len(y))) \div y[Len(y)]
    IN  IF est < Base THEN est ELSE Base - 1

BLongDivDigit(y, cur, hi) ==
    IF BCmp(BMulSmall(y, hi), cur) <= 0 THEN hi
    ELSE IF BCmp(BMulSmall(y, hi - 1), cur) <= 0 THEN hi - 1
    ELSE hi - 2

BLongDivNext(y, st, cur, digit) ==
    [k |-> st.k - 1,
     r |-> BSub(cur, BMulSmall(y, digit)),
     q |-> <<digit>> \o st.q]

BLongDivCur(y, st, cur) ==
    BLongDivNext(y, st, cur, BLongDivDigit(y, cur, BLongDivEstimate(y, cur)))

BLongDivStep(x, y, st) == BLongDivCur(y, st, BTrim(<<x[st.k]>> \o st.r))

RECURSIVE BLongDiv(_, _, _)
BLongDiv(x, y, st) ==
    IF st.k = 0 THEN st ELSE BLongDiv(x, y, BLongDivStep(x, y, st))

BLongDivResult(st) == [q |-> BTrim(st.q), exact |-> st.r = <<>>]

BDivModNormal(x, y) ==
    BLongDivResult(BLongDiv(x, y, [k |-> Len(x), r |-> <<>>, q |-> <<>>]))

BDivModShift(x, y, s) == BDivModNormal(BShl(x, s), BShl(y, s))

BDivMod(x, y) ==
    IF Len(y) = 1 THEN BDivSmall(x, y[1])
    ELSE BDivModShift(x, y, LimbBits - IntBits(y[Len(y)]))

(* A number is <<n, 1>>, the integer n with |n| < 2^30; <<s, 2, e, m>>,    *)
(* the double s * m * 2^e for any other finite value, m odd and below      *)
(* 2^53; <<0, 0>>, NaN; <<1, 0>>, Infinity; <<-1, 0>>, -Infinity.  Every    *)
(* value has one form, so = is ===.  The exponent is not bounded (no         *)
(* overflow to Infinity, no subnormals) and the sign of zero is not kept.    *)

Num(x) == <<x, 1>>
NaN == <<0, 0>>
IsNaN(a) == a = NaN
IsFinite(a) == a[2] > 0

Mantissa(a) == IF a[2] = 1 THEN BFromInt(Abs(a[1])) ELSE a[4]
Exponent(a) == IF a[2] = 1 THEN 0 ELSE a[3]

\* the number s * odd * 2^e for an odd natural of at most 53 bits
MakeOdd(s, odd, e) ==
    IF e >= 0 /\ BitLen(odd) + e <= SmallBits
    THEN <<s * BToInt(BShl(odd, e)), 1>>
    ELSE <<s, 2, e, odd>>

MakeShifted(s, m, e, tz) == MakeOdd(s, BShr(m, tz), e + tz)

\* the number s * m * 2^e, m of at most 53 bits, in its one form
MakeNum(s, m, e) ==
    IF m = <<>> THEN Num(0) ELSE MakeShifted(s, m, e, BTrailingZeros(m))

\* the quotient q of m by 2^k goes up when the remainder, compared as c with
\* 2^(k-1), is above the half, or on the half with q odd or the value inexact
RoundUp(q, c, inexact) ==
    IF c > 0 \/ (c = 0 /\ (inexact \/ q[1] % 2 = 1)) THEN BAdd(q, <<1>>) ELSE q

RoundQuotient(m, k, q, inexact) ==
    RoundUp(q, BCmp(BSub(m, BShl(q, k)), BShl(<<1>>, k - 1)), inexact)

RoundBits(m, k, inexact) ==
    IF k <= 0 THEN m ELSE RoundQuotient(m, k, BShr(m, k), inexact)

RoundBy(s, m, e, inexact, k) ==
    MakeNum(s, RoundBits(m, k, inexact), IF k <= 0 THEN e ELSE e + k)

\* s * m * 2^e rounded to 53 bits, ties to even; inexact says that the
\* exact value is a little above m * 2^e
RoundDouble(s, m, e, inexact) ==
    RoundBy(s, m, e, inexact, BitLen(m) - MantissaBits)

Mul(a, b) ==
    IF a[2] = 0 \/ b[2] = 0
    THEN (IF a[1] = 0 \/ b[1] = 0 THEN NaN
          ELSE <<Sign(a[1]) * Sign(b[1]), 0>>)
    ELSE IF a[2] = 1 /\ b[2] = 1 /\ Abs(a[1]) < Base /\ Abs(b[1]) < Base
    THEN <<a[1] * b[1], 1>>
    ELSE RoundDouble(Sign(a[1]) * Sign(b[1]), BMul(Mantissa(a), Mantissa(b)),
                     Exponent(a) + Exponent(b), FALSE)

Neg(a) == [a EXCEPT ![1] = -a[1]]

\* the magnitudes x and y on the common exponent e, c their comparison
AddCompared(sa, sb, x, y, e, c) ==
    RoundDouble(IF sa = sb \/ c > 0 THEN sa ELSE sb,
                IF sa = sb THEN BAdd(x, y)
                ELSE IF c > 0 THEN BSub(x, y)
                ELSE IF c < 0 THEN BSub(y, x) ELSE <<>>,
                e, FALSE)

AddMagnitudes(sa, sb, x, y, e) == AddCompared(sa, sb, x, y, e, BCmp(x, y))

AddAligned(a, b, e) ==
    AddMagnitudes(Sign(a[1]), Sign(b[1]), BShl(Mantissa(a), Exponent(a) - e),
                  BShl(Mantissa(b), Exponent(b) - e), e)

Add(a, b) ==
    IF IsNaN(a) \/ IsNaN(b) THEN NaN
    ELSE IF a[2] = 0 /\ b[2] = 0 THEN (IF a = b THEN a ELSE NaN)
    ELSE IF a[2] = 0 \/ b[1] = 0 THEN a
    ELSE IF b[2] = 0 \/ a[1] = 0 THEN b
    ELSE IF a[2] = 1 /\ b[2] = 1 /\ Abs(a[1] + b[1]) < Pow2(SmallBits)
    THEN <<a[1] + b[1], 1>>
    ELSE AddAligned(a, b, IF Exponent(a) < Exponent(b) THEN Exponent(a)
                          ELSE Exponent(b))

Sub(a, b) == Add(a, Neg(b))

DivRound(a, b, k, dm) ==
    RoundDouble(Sign(a[1]) * Sign(b[1]), dm.q, Exponent(a) - Exponent(b) - k,
                ~dm.exact)

\* the dividend is shifted by k bits so that the quotient has 56 bits or more
DivShifted(a, b, x, y, k) ==
    DivRound(a, b, IF k > 0 THEN k ELSE 0,
             BDivMod(BShl(x, IF k > 0 THEN k ELSE 0), y))

DivMantissas(a, b, x, y) ==
    DivShifted(a, b, x, y, BitLen(y) + MantissaBits + 3 - BitLen(x))

Div(a, b) ==
    IF IsNaN(a) \/ IsNaN(b) THEN NaN
    ELSE IF b[2] = 0 THEN (IF IsFinite(a) THEN Num(0) ELSE NaN)
    ELSE IF b[1] = 0 THEN <<Sign(a[1]), 0>>
    ELSE IF a[2] = 0 THEN <<Sign(a[1]) * Sign(b[1]), 0>>
    ELSE IF a[1] = 0 THEN Num(0)
    ELSE IF a[2] = 1 /\ b[2] = 1 /\ Abs(a[1]) % Abs(b[1]) = 0
    THEN <<Sign(a[1]) * Sign(b[1]) * (Abs(a[1]) \div Abs(b[1])), 1>>
    ELSE DivMantissas(a, b, Mantissa(a), Mantissa(b))

\* a <= b; every comparison with NaN is false
Leq(a, b) ==
    /\ ~IsNaN(a)
    /\ ~IsNaN(b)
    /\ \/ a = b
       \/ Sub(a, b)[1] < 0

\* -1, 0 or 1 as the finite a is below, equal to or above the finite b,
\* by their exact values
CompareExact(a, b) ==
    IF a = b THEN 0
    ELSE IF Sign(a[1]) # Sign(b[1]) THEN (IF Sign(a[1]) < Sign(b[1]) THEN -1 ELSE 1)
    ELSE LET e == IF Exponent(a) < Exponent(b) THEN Exponent(a) ELSE Exponent(b)
         IN  Sign(a[1]) * BCmp(BShl(Mantissa(a), Exponent(a) - e),
                               BShl(Mantissa(b), Exponent(b) - e))

\* value || fallback for a value that is a number or undefined:
\* undefined and 0 are falsy.  An optional number is <<>> or <<n>>.
Truthy(opt) == opt # <<>> /\ opt[1] # 0

\* the value undefined, and its conversion where a number is expected
Undefined == <<>>
ToNumber(v) == IF v = Undefined THEN NaN ELSE v

---------------------------------------------------------------------------
(* Inputs.  An optional number is <<>> (undefined) or <<n>>.               *)

\* the two seeded schedules of the laffeyMatrix collection
Matrix2024 ==
    [tier1to3Rate |-> 402, tier4to7Rate |-> 492, tier8to10Rate |-> 585,
     tier11to19Rate |-> 680, tier20PlusRate |-> 822, paralegalRate |-> 185]
Matrix2023 ==
    [tier1to3Rate |-> 385, tier4to7Rate |-> 472, tier8to10Rate |-> 561,
     tier11to19Rate |-> 652, tier20PlusRate |-> 788, paralegalRate |-> 178]

\* a request schedule that lacks tier8to10Rate (the body is not validated)
NoSeniorRate ==
    [tier1to3Rate |-> 402, tier4to7Rate |-> 492,
     tier11to19Rate |-> 680, tier20PlusRate |-> 822, paralegalRate |-> 185]

\* laffeyMatrix.<field>: the number, or undefined when the field is missing
MatrixRate(matrix, field) ==
    IF field \in DOMAIN matrix THEN Num(matrix[field]) ELSE Undefined

\* BillingEntry: the fields calculateLaffeyComparison reads
BillingEntry(att, h, r, y) ==
    [attorney |-> att, hours |-> h, rate |-> r, yearsExperience |-> y]

\* GenerateRequest["attorneys"]: undefined, or a list of roster records
NoRoster == [defined |-> FALSE, list |-> <<>>]
Roster(l) == [defined |-> TRUE, list |-> l]
Member(n, y, p) == [name |-> n, yearsExperience |-> y, isParalegal |-> p]

SeqsUpTo(S, n) == UNION {[1..k -> S] : k \in 0..n}

---------------------------------------------------------------------------
(* lib/document-utils.ts                                                    *)

\* the tier resolver with exclusive upper bounds
getLaffeyTierExclusive(yearsExperience) ==
    IF yearsExperience < 3 THEN "tier1to3"
    ELSE IF yearsExperience < 7 THEN "tier4to7"
    ELSE IF yearsExperience < 10 THEN "tier8to10"
    ELSE IF yearsExperience < 19 THEN "tier11to19"
    ELSE "tier20Plus"

getLaffeyTier(yearsExperience) ==
    IF yearsExperience <= 3 THEN "tier1to3"
    ELSE IF yearsExperience <= 7 THEN "tier4to7"
    ELSE IF yearsExperience <= 10 THEN "tier8to10"
    ELSE IF yearsExperience <= 19 THEN "tier11to19"
    ELSE "tier20Plus"

\* the rate resolver with the lowest tier paid at the paralegal rate
calculateLaffeyRateParalegal(yearsExperience, matrix) ==
    IF yearsExperience <= 3 THEN MatrixRate(matrix, "paralegalRate")
    ELSE IF yearsExperience <= 7 THEN MatrixRate(matrix, "tier4to7Rate")
    ELSE IF yearsExperience <= 10 THEN MatrixRate(matrix, "tier8to10Rate")
    ELSE IF yearsExperience <= 19 THEN MatrixRate(matrix, "tier11to19Rate")
    ELSE MatrixRate(matrix, "tier20PlusRate")

calculateLaffeyRate(yearsExperience, matrix) ==
    IF yearsExperience <= 3 THEN MatrixRate(matrix, "tier1to3Rate")
    ELSE IF yearsExperience <= 7 THEN MatrixRate(matrix, "tier4to7Rate")
    ELSE IF yearsExperience <= 10 THEN MatrixRate(matrix, "tier8to10Rate")
    ELSE IF yearsExperience <= 19 THEN MatrixRate(matrix, "tier11to19Rate")
    ELSE MatrixRate(matrix, "tier20PlusRate")

---------------------------------------------------------------------------
(* app/api/generate/route.ts: calculateLaffeyComparison                     *)

DefaultYearsExperience == 5

\* attorneys?.find(a => a.name === name)?.yearsExperience
RosterYears(roster, name) ==
    LET hits == {k \in 1..Len(roster.list) : roster.list[k].name = name}
    IN  IF ~roster.defined \/ hits = {} THEN <<>>
        ELSE <<roster.list[CHOOSE k \in hits : \A m \in hits : k <= m].yearsExperience>>

\* entry.yearsExperience || roster value || 5
ResolveYearsExp(entry, roster) ==
    IF Truthy(entry.yearsExperience) THEN entry.yearsExperience[1]
    ELSE IF Truthy(RosterYears(roster, entry.attorney))
         THEN RosterYears(roster, entry.attorney)[1]
         ELSE DefaultYearsExperience

\* a Map lookup that never finds the attorney
MapIndexMiss(map, name) == 0

\* byAttorney.get(name): the index of the record in the Map, 0 when absent
MapIndex(map, name) ==
    LET hits == {k \in 1..Len(map) : map[k].attorney = name}
    IN  IF hits = {} THEN 0 ELSE CHOOSE k \in hits : TRUE

\* the loop body with the record taking the years of every later entry
AggregateEntryLatestYears(map, entry, roster) ==
    LET k == MapIndex(map, entry.attorney)
        yrs == ResolveYearsExp(entry, roster)
    IN  IF k # 0
        THEN LET existing == map[k]
                 totalHours == existing.hours + entry.hours
             IN  [map EXCEPT ![k] =
                    [existing EXCEPT
                       !.billedRate =
                          Div(Add(Mul(existing.billedRate, Num(existing.hours)),
                                  Mul(Num(entry.rate), Num(entry.hours))),
                              Num(totalHours)),
                       !.hours = totalHours,
                       !.yearsExperience = yrs]]
        ELSE Append(map, [attorney |-> entry.attorney,
                          hours |-> entry.hours,
                          billedRate |-> Num(entry.rate),
                          yearsExperience |-> yrs])

\* the loop body with the plain mean of the two rates as the blended rate
AggregateEntryUnweighted(map, entry, roster) ==
    LET k == MapIndex(map, entry.attorney)
        yrs == ResolveYearsExp(entry, roster)
    IN  IF k # 0
        THEN LET existing == map[k]
                 totalHours == existing.hours + entry.hours
             IN  [map EXCEPT ![k] =
                    [existing EXCEPT
                       !.billedRate =
                          Div(Add(existing.billedRate, Num(entry.rate)),
                              Num(2)),
                       !.hours = totalHours]]
        ELSE Append(map, [attorney |-> entry.attorney,
                          hours |-> entry.hours,
                          billedRate |-> Num(entry.rate),
                          yearsExperience |-> yrs])

\* the body of the first loop for one entry
AggregateEntry(map, entry, roster) ==
    LET k == MapIndex(map, entry.attorney)
        yrs == ResolveYearsExp(entry, roster)
    IN  IF k # 0
        THEN LET existing == map[k]
                 totalHours == existing.hours + entry.hours
             IN  [map EXCEPT ![k] =
                    [existing EXCEPT
                       !.billedRate =
                          Div(Add(Mul(existing.billedRate, Num(existing.hours)),
                                  Mul(Num(entry.rate), Num(entry.hours))),
                              Num(totalHours)),
                       !.hours = totalHours]]
        ELSE Append(map, [attorney |-> entry.attorney,
                          hours |-> entry.hours,
                          billedRate |-> Num(entry.rate),
                          yearsExperience |-> yrs])

\* the row with the benchmark amount left at the benchmark rate
ComparisonRowPerHour(data, matrix) ==
    LET laffeyRate == calculateLaffeyRate(data.yearsExperience, matrix)
    IN  [attorney |-> data.attorney,
         hours |-> data.hours,
         billedRate |-> data.billedRate,
         laffeyRate |-> laffeyRate,
         billedAmount |-> Mul(Num(data.hours), data.billedRate),
         laffeyAmount |-> ToNumber(laffeyRate)]

\* the row the second loop pushes for one record of the Map
ComparisonRow(data, matrix) ==
    LET laffeyRate == calculateLaffeyRate(data.yearsExperience, matrix)
    IN  [attorney |-> data.attorney,
         hours |-> data.hours,
         billedRate |-> data.billedRate,
         laffeyRate |-> laffeyRate,
         billedAmount |-> Mul(Num(data.hours), data.billedRate),
         laffeyAmount |-> Mul(Num(data.hours), ToNumber(laffeyRate))]

\* the returned object with the difference taken the other way round
ComparisonResultSwapped(tb, tl, rows) ==
    [totalBilled |-> tb,
     totalLaffey |-> tl,
     difference |-> Sub(tb, tl),
     isUnderLaffey |-> Leq(tb, tl),
     byAttorney |-> rows]

\* the returned object with a strict comparison
ComparisonResultStrict(tb, tl, rows) ==
    [totalBilled |-> tb,
     totalLaffey |-> tl,
     difference |-> Sub(tl, tb),
     isUnderLaffey |-> Leq(tb, tl) /\ tb # tl,
     byAttorney |-> rows]

\* the returned object
ComparisonResult(tb, tl, rows) ==
    [totalBilled |-> tb,
     totalLaffey |-> tl,
     difference |-> Sub(tl, tb),
     isUnderLaffey |-> Leq(tb, tl),
     byAttorney |-> rows]

\* the second loop and the return, for a whole Map
RECURSIVE SumAmounts(_, _)
SumAmounts(rows, field) ==
    IF rows = <<>> THEN Num(0)
    ELSE Add(SumAmounts(SubSeq(rows, 1, Len(rows) - 1), field),
             rows[Len(rows)][field])

RECURSIVE AggregateAll(_, _)
AggregateAll(es, roster) ==
    IF es = <<>> THEN <<>>
    ELSE AggregateEntry(AggregateAll(SubSeq(es, 1, Len(es) - 1), roster),
                        es[Len(es)], roster)

\* calculateLaffeyComparison as a function of its arguments
calculateLaffeyComparison(es, matrix, roster) ==
    LET map == AggregateAll(es, roster)
        rows == [k \in 1..Len(map) |-> ComparisonRow(map[k], matrix)]
    IN  ComparisonResult(SumAmounts(rows, "billedAmount"),
                         SumAmounts(rows, "laffeyAmount"), rows)

---------------------------------------------------------------------------
(* Document generation (route.ts, generate*Document and generateFullPackage). *)
(* A document is kept as the statements it makes about the comparison and   *)
(* the comparison table it carries; every cell and amount is a record of    *)
(* one shape: a text, or a number rendered to a fixed number of decimals.   *)

Text(str) == [kind |-> "text", text |-> str, negative |-> FALSE, units |-> 0]

\* the cents of v = m / 2^n from c = floor(100 v): they are c + 1 when v is
\* above (2c + 1) / 200 or is the double nearest to it, whose shortest
\* decimal is then that fraction.  With t = (2c + 1) * 2^n and u = 200 * m,
\* v is above when u > t, and nearest when (t - u) * 2^(54 - len) is below
\* 200, or equal to 200 with the last of the 53 mantissa bits clear.
CentsHalf(c, len, d) ==
    IF d < 0 \/ (d = 0 /\ len < MantissaBits) THEN c + 1 ELSE c

CentsNear(c, len, t, u) ==
    IF BCmp(u, t) > 0 THEN c + 1
    ELSE CentsHalf(c, len, BCmp(BShl(BSub(t, u), MantissaBits + 1 - len),
                                BFromInt(200)))

CentsFrom(m, n, c) ==
    CentsNear(c, BitLen(m), BShl(BFromInt(2 * c + 1), n), BMulSmall(m, 200))

\* the cents Intl.NumberFormat prints for a finite v >= 0 below 10^7: the
\* shortest decimal that reads back as v, rounded half away from zero
Cents(v) ==
    IF v[2] = 1 THEN 100 * v[1]
    ELSE CentsFrom(v[4], -v[3], BToInt(BShr(BMulSmall(v[4], 100), -v[3])))

\* formatCurrency(amount): en-US USD with two decimals; units are cents
formatCurrency(amount) ==
    LET v == ToNumber(amount)
    IN  IF IsNaN(v)
        THEN [kind |-> "currency", text |-> "NaN", negative |-> FALSE, units |-> 0]
        ELSE IF ~IsFinite(v)
        THEN [kind |-> "currency", text |-> "Infinity", negative |-> v[1] < 0,
              units |-> 0]
        ELSE [kind |-> "currency", text |-> "", negative |-> v[1] < 0,
              units |-> Cents([v EXCEPT ![1] = Abs(v[1])])]

\* hours.toFixed(1) of a whole number of hours; units are tenths
toFixed1(hours) ==
    [kind |-> "fixed1", text |-> "", negative |-> hours < 0,
     units |-> 10 * Abs(hours)]

\* Math.abs(x)
MathAbs(v) == [v EXCEPT ![1] = Abs(v[1])]

Statement(says, amount) == [says |-> says, amount |-> amount]

\* laffeyComparison.byAttorney.map((a) => [six cells])
ComparisonRows(cmp) ==
    [k \in 1..Len(cmp.byAttorney) |->
        LET a == cmp.byAttorney[k]
        IN  <<Text(a.attorney), toFixed1(a.hours), formatCurrency(a.billedRate),
              formatCurrency(a.laffeyRate), formatCurrency(a.billedAmount),
              formatCurrency(a.laffeyAmount)>>]

\* laffeyRows.push(["TOTAL", "", "", "", totalBilled, totalLaffey])
TotalRow(cmp) ==
    <<Text("TOTAL"), Text(""), Text(""), Text(""),
      formatCurrency(cmp.totalBilled), formatCurrency(cmp.totalLaffey)>>

Document(type, statements, table) ==
    [status |-> 200, type |-> type, statements |-> statements, table |-> table]

\* generateMotionDocument: section A always says the rates are at or below
\* market; section C is written when there are entries; lc is the
\* comparison, <<>> when null
generateMotionDocument(lc, es) ==
    Document("motion",
        <<Statement("at_or_below_market", Text(""))>>
        \o (IF Len(es) > 0
            THEN <<Statement("consistent_and_in_fact_below_market", Text(""))>>
                 \o (IF lc # <<>> /\ lc[1].isUnderLaffey
                     THEN <<Statement("below_by",
                                      formatCurrency(lc[1].difference))>>
                     ELSE <<>>)
            ELSE <<>>),
        <<>>)

\* generateBillingSummaryDocument: the "LAFFEY MATRIX COMPARISON" part
generateBillingSummaryDocument(lc) ==
    IF lc = <<>> THEN Document("billing_summary", <<>>, <<>>)
    ELSE
    Document("billing_summary",
        <<Statement("at_or_below_market", Text("")),
          IF lc[1].isUnderLaffey
          THEN Statement("below_by", formatCurrency(lc[1].difference))
          ELSE Statement("consistent_with_market", Text(""))>>,
        <<[headers |-> <<"Timekeeper", "Hours", "Billed Rate", "Laffey Rate",
                         "Billed", "Laffey">>,
           rows |-> Append(ComparisonRows(lc[1]), TotalRow(lc[1]))]>>)

\* generateFullPackage: Exhibit C
generateFullPackage(lc) ==
    IF lc = <<>> THEN Document("full_package", <<>>, <<>>)
    ELSE
    Document("full_package",
        <<Statement("at_or_below_market", Text(""))>>
        \o (IF lc[1].isUnderLaffey
            THEN <<Statement("below_by", formatCurrency(lc[1].difference))>>
            ELSE <<>>),
        <<[headers |-> <<"Timekeeper", "Hours", "Billed", "Laffey",
                         "Billed Total", "Laffey Total">>,
           rows |-> Append(ComparisonRows(lc[1]), TotalRow(lc[1]))]>>)

\* generateFullPackage of the file's first revision: Exhibit C has a
\* five-column table and gives the totals as paragraphs
generateFullPackageFirst(lc) ==
    IF lc = <<>> THEN Document("full_package_first", <<>>, <<>>)
    ELSE
    Document("full_package_first",
        <<Statement("billed_total", formatCurrency(lc[1].totalBilled)),
          Statement("laffey_total", formatCurrency(lc[1].totalLaffey)),
          IF lc[1].isUnderLaffey
          THEN Statement("below_by", formatCurrency(lc[1].difference))
          ELSE Statement("exceeds_by",
                         formatCurrency(MathAbs(lc[1].difference)))>>,
        <<[headers |-> <<"Attorney", "Hours", "Billed Rate", "Laffey Rate",
                         "Difference">>,
           rows |-> [k \in 1..Len(lc[1].byAttorney) |->
                       LET a == lc[1].byAttorney[k]
                       IN  <<Text(a.attorney), toFixed1(a.hours),
                             formatCurrency(a.billedRate),
                             formatCurrency(a.laffeyRate),
                             formatCurrency(Sub(a.laffeyAmount,
                                                a.billedAmount))>>]]>>)

\* generateRepairSummaryDocument does not receive the comparison
generateRepairSummaryDocument == Document("repair_summary", <<>>, <<>>)

\* the request's type field: the four document types and one unknown value
DocTypes == {"motion", "repair_summary", "billing_summary", "full_package",
             "other"}

\* switch (type) { ... } of the POST handler
SwitchType(type, lc, es) ==
    CASE type = "motion" -> generateMotionDocument(lc, es)
      [] type = "repair_summary" -> generateRepairSummaryDocument
      [] type = "billing_summary" -> generateBillingSummaryDocument(lc)
      [] type = "full_package" -> generateFullPackage(lc)
      [] OTHER -> [status |-> 400, type |-> type, statements |-> <<>>,
                   table |-> <<>>]

---------------------------------------------------------------------------
(* The case store: the MongoDB collections and the handlers that write them. *)

\* an id string as ObjectId.isValid sees it: its length and whether all its
\* characters are hexadecimal; n tells ids of the same shape apart
IdString(len, hex, n) == [len |-> len, hex |-> hex, n |-> n]

\* ObjectId.isValid(id) for a string: 24 hexadecimal characters
ObjectIdIsValid(id) == id.len = 24 /\ id.hex

CaseIds == {IdString(24, TRUE, 1), IdString(24, TRUE, 2)}

\* the ids a request may carry: the case ids and a malformed one
RequestIds == CaseIds \cup {IdString(7, FALSE, 1)}

\* the setup script's sample case number
SampleCaseNumber == "24TEST00001"

\* the case numbers a request body may carry
CaseNumbers == {SampleCaseNumber, "24TEST00002"}

\* the case number of the n-th case of the initial store
CaseNumberOf(n) == IF n = 1 THEN SampleCaseNumber ELSE "24TEST00002"

\* a stored case; its number is unique in the initial store
CaseDoc(id) == [id |-> id, caseNumber |-> CaseNumberOf(id.n)]

\* a stored repair order, billing entry or cost
ChildDoc(n, caseId) == [id |-> n, caseId |-> caseId]

\* insertMany(docs) / insertOne(doc): count documents with fresh ids
InsertMany(coll, first, count, caseId) ==
    coll \cup {ChildDoc(first + k, caseId) : k \in 1..count}

\* deleteMany({ caseId })
DeleteMany(coll, caseId) == {d \in coll : d.caseId # caseId}

Response(handler, status, id) == [handler |-> handler, status |-> status, id |-> id]

---------------------------------------------------------------------------
(* Input domains of the specifications.                                     *)

\* Spec: two attorneys and rates that sit on the schedule's lowest and
\* highest tier; A's entries have zero or positive hours and experience in
\* either of those tiers, B's have 10 hours and experience in the highest;
\* and three entries with 5 years: 1 h at 336 and 6 h at 600 for A, whose
\* blended rate 3936 / 7 is rounded, and 1 h at 0 for B
EntryPool ==
    {BillingEntry("A", h, r, y) :
        h \in {0, 5, 10}, r \in {402, 822}, y \in {<<3>>, <<22>>}}
    \cup {BillingEntry("B", 10, r, <<22>>) : r \in {402, 822}}
    \cup {BillingEntry("A", 1, 336, <<5>>), BillingEntry("A", 6, 600, <<5>>),
          BillingEntry("B", 1, 0, <<5>>)}

\* InputSpec: one attorney, negative / zero / positive hours, experience
\* absent, negative, zero and positive, with and without a roster
InputEntryPool ==
    {BillingEntry("A", h, 402, y) :
        h \in {-5, 0, 5}, y \in {<<>>, <<-1>>, <<0>>, <<9>>}}

\* ScheduleSpec: A with 9 years at two rates, B in the lowest or highest
\* tier, positive hours only
SchedulePool ==
    {BillingEntry("A", h, r, <<9>>) : h \in {5, 10}, r \in {500, 600}}
    \cup {BillingEntry("B", h, 500, y) : h \in {5, 10}, y \in {<<3>>, <<22>>}}

InputRosters ==
    {NoRoster,
     Roster(<<>>),
     Roster(<<Member("a", 12, FALSE), Member("A", 22, FALSE), Member("A", 3, TRUE)>>),
     Roster(<<Member("B", 12, FALSE), Member("A", 0, FALSE)>>),
     Roster(<<Member("A", 2, TRUE)>>)}

---------------------------------------------------------------------------
(* The state machine.                                                       *)

CalcStart ==
    /\ pc = "aggregate"
    /\ i = 0
    /\ byAttorney = <<>>
    /\ yearsExp = <<>>
    /\ result = <<>>
    /\ totalBilled = Num(0)
    /\ totalLaffey = Num(0)
    /\ ret = <<>>

TierIdle ==
    /\ yearsIn = 0
    /\ tierOut = <<>>
    /\ rateOut = <<>>

NoScript == [name |-> "", pc |-> "idle", caseId |-> <<>>, runs |-> 0]

NoRequest == [pc |-> "idle", id |-> <<>>, repairOrdersDone |-> FALSE,
              billingDone |-> FALSE]
NoResponse == [handler |-> "", status |-> 0, id |-> <<>>]

StoreIdle ==
    /\ cases = {}
    /\ repairOrders = {}
    /\ billingEntries = {}
    /\ costs = {}
    /\ indexes = {}
    /\ script = NoScript
    /\ nextId = 0
    /\ del = NoRequest
    /\ resp = NoResponse

MoreIdle ==
    /\ posts = <<>>
    /\ conn = <<>>
    /\ detect = <<>>
    /\ req = <<>>

ExtIdle ==
    /\ doc = <<>>
    /\ StoreIdle
    /\ calls = <<>>
    /\ MoreIdle

Init ==
    /\ entries \in SeqsUpTo(EntryPool, MaxEntries)
    /\ laffeyMatrix = Matrix2024
    /\ attorneys = NoRoster
    /\ CalcStart
    /\ TierIdle
    /\ ExtIdle

InputInit ==
    /\ entries \in SeqsUpTo(InputEntryPool, MaxEntries)
    /\ laffeyMatrix = Matrix2024
    /\ attorneys \in InputRosters
    /\ CalcStart
    /\ TierIdle
    /\ ExtIdle

ScheduleInit ==
    /\ entries \in SeqsUpTo(SchedulePool, MaxEntries)
    /\ laffeyMatrix \in {Matrix2024, NoSeniorRate}
    /\ attorneys = NoRoster
    /\ CalcStart
    /\ TierIdle
    /\ ExtIdle

TierInit ==
    /\ entries = <<>>
    /\ laffeyMatrix \in {Matrix2024, Matrix2023}
    /\ attorneys = NoRoster
    /\ pc = "resolver"
    /\ ExtIdle
    /\ i = 0
    /\ byAttorney = <<>>
    /\ yearsExp = <<>>
    /\ result = <<>>
    /\ totalBilled = Num(0)
    /\ totalLaffey = Num(0)
    /\ ret = <<>>
    /\ yearsIn \in (0 - MaxNegYears)..MaxYears
    /\ tierOut = <<>>
    /\ rateOut = <<>>

\* the iteration with the entry object itself stored in the Map, so that
\* the update of existing.hours lands on the attorney's first entry
AggregateStepAliased ==
    /\ pc = "aggregate"
    /\ i < Len(entries)
    /\ yearsExp' = <<ResolveYearsExp(entries[i + 1], attorneys)>>
    /\ byAttorney' = AggregateEntry(byAttorney, entries[i + 1], attorneys)
    /\ LET own == {k \in 1..i : entries[k].attorney = entries[i + 1].attorney}
       IN  entries' =
             IF own = {} THEN entries
             ELSE [entries EXCEPT
                     ![CHOOSE k \in own : \A m \in own : k <= m].hours =
                        @ + entries[i + 1].hours]
    /\ i' = i + 1
    /\ UNCHANGED <<laffeyMatrix, attorneys, pc, result, totalBilled,
                   totalLaffey, ret, tierVars, extVars>>

\* for (const entry of entries) { ... }: one iteration
AggregateStep ==
    /\ pc = "aggregate"
    /\ i < Len(entries)
    /\ yearsExp' = <<ResolveYearsExp(entries[i + 1], attorneys)>>
    /\ byAttorney' = AggregateEntry(byAttorney, entries[i + 1], attorneys)
    /\ i' = i + 1
    /\ UNCHANGED <<entries, laffeyMatrix, attorneys, pc, result, totalBilled,
                   totalLaffey, ret, tierVars, extVars>>

\* the first loop ends; result = [], totalBilled = 0, totalLaffey = 0
AggregateDone ==
    /\ pc = "aggregate"
    /\ i = Len(entries)
    /\ pc' = "compare"
    /\ result' = <<>>
    /\ totalBilled' = Num(0)
    /\ totalLaffey' = Num(0)
    /\ UNCHANGED <<entries, laffeyMatrix, attorneys, i, byAttorney, yearsExp,
                   ret, tierVars, extVars>>

\* for (const [attorney, data] of byAttorney) { ... }: one iteration
CompareStep ==
    /\ pc = "compare"
    /\ Len(result) < Len(byAttorney)
    /\ LET row == ComparisonRow(byAttorney[Len(result) + 1], laffeyMatrix)
       IN  /\ result' = Append(result, row)
           /\ totalBilled' = Add(totalBilled, row.billedAmount)
           /\ totalLaffey' = Add(totalLaffey, row.laffeyAmount)
    /\ UNCHANGED <<entries, laffeyMatrix, attorneys, pc, i, byAttorney,
                   yearsExp, ret, tierVars, extVars>>

\* return { totalBilled, totalLaffey, difference, isUnderLaffey, byAttorney }
Return ==
    /\ pc = "compare"
    /\ Len(result) = Len(byAttorney)
    /\ ret' = <<ComparisonResult(totalBilled, totalLaffey, result)>>
    /\ pc' = "done"
    /\ UNCHANGED <<entries, laffeyMatrix, attorneys, i, byAttorney, yearsExp,
                   result, totalBilled, totalLaffey, tierVars, extVars>>

\* POST: switch (type) on the comparison just computed
PostGenerate ==
    /\ pc = "done"
    /\ doc = <<>>
    /\ \E type \in DocTypes : doc' = <<SwitchType(type, ret, entries)>>
    /\ UNCHANGED <<entries, laffeyMatrix, attorneys, pc, calcVars, tierVars,
                   storeVars, calls, moreVars>>

\* POST of the first revision, case "full_package"
PostGenerateFirst ==
    /\ pc = "done"
    /\ doc = <<>>
    /\ doc' = <<generateFullPackageFirst(ret)>>
    /\ UNCHANGED <<entries, laffeyMatrix, attorneys, pc, calcVars, tierVars,
                   storeVars, calls, moreVars>>

\* a call of getLaffeyTier(yearsIn)
CallGetLaffeyTier ==
    /\ pc = "resolver"
    /\ tierOut = <<>>
    /\ tierOut' = <<getLaffeyTier(yearsIn)>>
    /\ UNCHANGED <<entries, laffeyMatrix, attorneys, pc, calcVars, yearsIn, rateOut, extVars>>

\* a call of calculateLaffeyRate(yearsIn, laffeyMatrix)
CallCalculateLaffeyRate ==
    /\ pc = "resolver"
    /\ rateOut = <<>>
    /\ rateOut' = <<calculateLaffeyRate(yearsIn, laffeyMatrix)>>
    /\ UNCHANGED <<entries, laffeyMatrix, attorneys, pc, calcVars, yearsIn, tierOut, extVars>>

\* the handlers of the store specification that run in several steps, one
\* request of each in flight at a time
StoreRequests == {"POST /api/costs", "POST /api/repair-orders",
                  "POST /api/billing", "DELETE /api/repair-orders/[id]"}

IdleRequest == [pc |-> "idle", id |-> <<>>, caseId |-> <<>>]

\* the ids a DELETE /api/repair-orders/[id] may carry: the ids insertMany
\* hands out and a malformed one
RepairOrderIds ==
    {IdString(24, TRUE, n) : n \in 1..MaxChildren}
    \cup {IdString(7, FALSE, 1)}

\* a write that would give a second document of coll the caseNumber n fails
\* with a duplicate key error when the collection has the unique index of
\* createIndex({ caseNumber: 1 }, { unique: true }); without the index every
\* write is accepted
IndexAllows(coll, n) ==
    "caseNumber" \in indexes => \A c \in coll : c.caseNumber # n

---------------------------------------------------------------------------
(* The scripts run by hand against the database: setup (createIndex, then  *)
(* the sample case and its repair order) and clear-data.  Their writes to   *)
(* the collections laffeyMatrix, attorneys and motions are left out.        *)

ScriptFrame == UNCHANGED <<entries, laffeyMatrix, attorneys, pc, calcVars,
                           tierVars, doc, nextId, del, resp, calls, posts,
                           conn, detect, req>>

ScriptEnded == [NoScript EXCEPT !.runs = script.runs]

\* the _id of the documents the n-th run of setup inserts
SetupId(n) == 10 + n

\* setup up to createIndex({ caseNumber: 1 }, { unique: true }) on 'cases':
\* the index is built unless two stored cases share a number, in which case
\* createIndex throws and the script ends in its catch
SetupCreateIndex ==
    /\ pc = "cases"
    /\ script.pc = "idle"
    /\ script.runs < MaxSetupRuns
    /\ IF \A c1, c2 \in cases : c1.caseNumber = c2.caseNumber => c1 = c2
       THEN /\ indexes' = indexes \cup {"caseNumber"}
            /\ script' = [name |-> "setup", pc |-> "deleteMany",
                          caseId |-> <<>>, runs |-> script.runs + 1]
       ELSE /\ script' = [script EXCEPT !.runs = script.runs + 1]
            /\ UNCHANGED indexes
    /\ UNCHANGED <<cases, repairOrders, billingEntries, costs>>
    /\ ScriptFrame

\* db.collection('cases').deleteMany({})
SetupDeleteCases ==
    /\ script.name = "setup"
    /\ script.pc = "deleteMany"
    /\ cases' = {}
    /\ script' = [script EXCEPT !.pc = "insertCase"]
    /\ UNCHANGED <<repairOrders, billingEntries, costs, indexes>>
    /\ ScriptFrame

\* db.collection('cases').insertOne({ caseNumber: "24TEST00001", ... }); a
\* duplicate key error ends the script in its catch
SetupInsertCase ==
    /\ script.name = "setup"
    /\ script.pc = "insertCase"
    /\ IF IndexAllows(cases, SampleCaseNumber)
       THEN LET id == IdString(24, TRUE, SetupId(script.runs))
            IN  /\ cases' = cases \cup
                       {[id |-> id, caseNumber |-> SampleCaseNumber]}
                /\ script' = [script EXCEPT !.pc = "insertRepairOrder",
                                            !.caseId = <<id>>]
       ELSE /\ script' = ScriptEnded
            /\ UNCHANGED cases
    /\ UNCHANGED <<repairOrders, billingEntries, costs, indexes>>
    /\ ScriptFrame

\* db.collection('repairOrders').insertOne({ caseId: caseResult.insertedId,
\* ... }), the script's last write
SetupInsertRepairOrder ==
    /\ script.name = "setup"
    /\ script.pc = "insertRepairOrder"
    /\ repairOrders' = repairOrders \cup
           {ChildDoc(SetupId(script.runs), script.caseId[1])}
    /\ script' = ScriptEnded
    /\ UNCHANGED <<cases, billingEntries, costs, indexes>>
    /\ ScriptFrame

\* clearData: deleteMany({}) on each collection in turn, 'cases' first
ClearCases ==
    /\ pc \in {"store", "cases"}
    /\ script.pc = "idle"
    /\ cases' = {}
    /\ script' = [script EXCEPT !.name = "clear-data", !.pc = "repairOrders"]
    /\ UNCHANGED <<repairOrders, billingEntries, costs, indexes>>
    /\ ScriptFrame

ClearRepairOrders ==
    /\ script.name = "clear-data"
    /\ script.pc = "repairOrders"
    /\ repairOrders' = {}
    /\ script' = [script EXCEPT !.pc = "billingEntries"]
    /\ UNCHANGED <<cases, billingEntries, costs, indexes>>
    /\ ScriptFrame

ClearBillingEntries ==
    /\ script.name = "clear-data"
    /\ script.pc = "billingEntries"
    /\ billingEntries' = {}
    /\ script' = [script EXCEPT !.pc = "costs"]
    /\ UNCHANGED <<cases, repairOrders, costs, indexes>>
    /\ ScriptFrame

ClearCosts ==
    /\ script.name = "clear-data"
    /\ script.pc = "costs"
    /\ costs' = {}
    /\ script' = ScriptEnded
    /\ UNCHANGED <<cases, repairOrders, billingEntries, indexes>>
    /\ ScriptFrame

\* the store specification starts from a store holding some of the cases
\* and no children
StoreInit ==
    /\ entries = <<>>
    /\ laffeyMatrix = Matrix2024
    /\ attorneys = NoRoster
    /\ pc = "store"
    /\ i = 0
    /\ byAttorney = <<>>
    /\ yearsExp = <<>>
    /\ result = <<>>
    /\ totalBilled = Num(0)
    /\ totalLaffey = Num(0)
    /\ ret = <<>>
    /\ TierIdle
    /\ doc = <<>>
    /\ cases \in {{CaseDoc(id) : id \in S} : S \in SUBSET CaseIds}
    /\ repairOrders = {}
    /\ billingEntries = {}
    /\ costs = {}
    /\ indexes = {}
    /\ script = NoScript
    /\ nextId = 0
    /\ del = NoRequest
    /\ resp = NoResponse
    /\ calls = <<>>
    /\ posts = [h \in StoreRequests |-> IdleRequest]
    /\ conn = <<>>
    /\ detect = <<>>
    /\ req = <<>>

StoreFrame == UNCHANGED <<entries, laffeyMatrix, attorneys, pc, calcVars,
                          tierVars, doc, indexes, script, calls, conn,
                          detect, req>>

\* POST /api/costs up to insertOne: validate the caseId's syntax (400),
\* then collection.insertOne(newCost)
PostCost ==
    /\ pc = "store"
    /\ posts["POST /api/costs"].pc = "idle"
    /\ \E id \in RequestIds :
          IF ~ObjectIdIsValid(id)
          THEN /\ resp' = Response("POST /api/costs", 400, id)
               /\ UNCHANGED <<costs, nextId, posts>>
          ELSE /\ nextId < MaxChildren
               /\ costs' = InsertMany(costs, nextId, 1, id)
               /\ nextId' = nextId + 1
               /\ posts' = [posts EXCEPT !["POST /api/costs"] =
                               [pc |-> "touch", id |-> id, caseId |-> id]]
               /\ UNCHANGED resp
    /\ UNCHANGED <<cases, repairOrders, billingEntries, del>>
    /\ StoreFrame

\* POST /api/costs after insertOne: casesCollection.updateOne sets the
\* updatedAt of the case it matches, if any (updatedAt is not part of a
\* stored case here), then 201
PostCostRespond ==
    /\ pc = "store"
    /\ posts["POST /api/costs"].pc = "touch"
    /\ resp' = Response("POST /api/costs", 201,
                        posts["POST /api/costs"].id)
    /\ posts' = [posts EXCEPT !["POST /api/costs"] = IdleRequest]
    /\ UNCHANGED <<cases, repairOrders, billingEntries, costs, nextId, del>>
    /\ StoreFrame

\* POST /api/repair-orders up to insertMany: validate (400), insertMany
PostRepairOrders ==
    /\ pc = "store"
    /\ posts["POST /api/repair-orders"].pc = "idle"
    /\ \E id \in RequestIds, count \in 0..(MaxChildren - nextId) :
          IF ~ObjectIdIsValid(id) \/ count = 0
          THEN /\ resp' = Response("POST /api/repair-orders", 400, id)
               /\ UNCHANGED <<repairOrders, nextId, posts>>
          ELSE /\ repairOrders' = InsertMany(repairOrders, nextId, count, id)
               /\ nextId' = nextId + count
               /\ posts' = [posts EXCEPT !["POST /api/repair-orders"] =
                               [pc |-> "touch", id |-> id, caseId |-> id]]
               /\ UNCHANGED resp
    /\ UNCHANGED <<cases, billingEntries, costs, del>>
    /\ StoreFrame

\* POST /api/repair-orders after insertMany: updateOne on cases, then 201
PostRepairOrdersRespond ==
    /\ pc = "store"
    /\ posts["POST /api/repair-orders"].pc = "touch"
    /\ resp' = Response("POST /api/repair-orders", 201,
                        posts["POST /api/repair-orders"].id)
    /\ posts' = [posts EXCEPT !["POST /api/repair-orders"] = IdleRequest]
    /\ UNCHANGED <<cases, repairOrders, billingEntries, costs, nextId, del>>
    /\ StoreFrame

\* POST /api/billing up to insertMany: validate (400), insertMany
PostBilling ==
    /\ pc = "store"
    /\ posts["POST /api/billing"].pc = "idle"
    /\ \E id \in RequestIds, count \in 0..(MaxChildren - nextId) :
          IF ~ObjectIdIsValid(id) \/ count = 0
          THEN /\ resp' = Response("POST /api/billing", 400, id)
               /\ UNCHANGED <<billingEntries, nextId, posts>>
          ELSE /\ billingEntries' = InsertMany(billingEntries, nextId, count, id)
               /\ nextId' = nextId + count
               /\ posts' = [posts EXCEPT !["POST /api/billing"] =
                               [pc |-> "touch", id |-> id, caseId |-> id]]
               /\ UNCHANGED resp
    /\ UNCHANGED <<cases, repairOrders, costs, del>>
    /\ StoreFrame

\* POST /api/billing after insertMany: updateOne on cases, then 201
PostBillingRespond ==
    /\ pc = "store"
    /\ posts["POST /api/billing"].pc = "touch"
    /\ resp' = Response("POST /api/billing", 201,
                        posts["POST /api/billing"].id)
    /\ posts' = [posts EXCEPT !["POST /api/billing"] = IdleRequest]
    /\ UNCHANGED <<cases, repairOrders, billingEntries, costs, nextId, del>>
    /\ StoreFrame

\* DELETE /api/repair-orders/[id] up to findOne: 400 for a malformed id,
\* 404 when no repair order has the id
DeleteRepairOrderFind ==
    /\ pc = "store"
    /\ posts["DELETE /api/repair-orders/[id]"].pc = "idle"
    /\ \E id \in RepairOrderIds :
          LET found == {d \in repairOrders : d.id = id.n}
          IN  IF ~ObjectIdIsValid(id)
              THEN /\ resp' = Response("DELETE /api/repair-orders/[id]",
                                       400, id)
                   /\ UNCHANGED posts
              ELSE IF found = {}
              THEN /\ resp' = Response("DELETE /api/repair-orders/[id]",
                                       404, id)
                   /\ UNCHANGED posts
              ELSE /\ posts' = [posts EXCEPT
                                  !["DELETE /api/repair-orders/[id]"] =
                                      [pc |-> "delete", id |-> id,
                                       caseId |->
                                           (CHOOSE d \in found : TRUE).caseId]]
                   /\ UNCHANGED resp
    /\ UNCHANGED <<cases, repairOrders, billingEntries, costs, nextId, del>>
    /\ StoreFrame

\* collection.deleteOne({ _id }): its result is not looked at
DeleteRepairOrderDeleteOne ==
    /\ pc = "store"
    /\ posts["DELETE /api/repair-orders/[id]"].pc = "delete"
    /\ repairOrders' =
          {d \in repairOrders :
              d.id # posts["DELETE /api/repair-orders/[id]"].id.n}
    /\ posts' = [posts EXCEPT !["DELETE /api/repair-orders/[id]"].pc = "touch"]
    /\ UNCHANGED <<cases, billingEntries, costs, nextId, del, resp>>
    /\ StoreFrame

\* DELETE /api/repair-orders/[id] after deleteOne: updateOne on cases, 200
DeleteRepairOrderRespond ==
    /\ pc = "store"
    /\ posts["DELETE /api/repair-orders/[id]"].pc = "touch"
    /\ resp' = Response("DELETE /api/repair-orders/[id]", 200,
                        posts["DELETE /api/repair-orders/[id]"].id)
    /\ posts' = [posts EXCEPT !["DELETE /api/repair-orders/[id]"] = IdleRequest]
    /\ UNCHANGED <<cases, repairOrders, billingEntries, costs, nextId, del>>
    /\ StoreFrame

\* DELETE /api/cases/[id]: validate the id, then start both deleteMany
DeleteBegin ==
    /\ pc = "store"
    /\ del.pc = "idle"
    /\ \E id \in RequestIds :
          IF ~ObjectIdIsValid(id)
          THEN /\ resp' = Response("DELETE /api/cases/[id]", 400, id)
               /\ UNCHANGED del
          ELSE /\ del' = [pc |-> "children", id |-> id,
                          repairOrdersDone |-> FALSE, billingDone |-> FALSE]
               /\ UNCHANGED resp
    /\ UNCHANGED <<cases, repairOrders, billingEntries, costs, nextId, posts>>
    /\ StoreFrame

\* repairOrdersCollection.deleteMany({ caseId: objectId })
DeleteRepairOrders ==
    /\ del.pc = "children"
    /\ ~del.repairOrdersDone
    /\ repairOrders' = DeleteMany(repairOrders, del.id)
    /\ del' = [del EXCEPT !.repairOrdersDone = TRUE]
    /\ UNCHANGED <<cases, billingEntries, costs, nextId, resp, posts>>
    /\ StoreFrame

\* billingCollection.deleteMany({ caseId: objectId })
DeleteBilling ==
    /\ del.pc = "children"
    /\ ~del.billingDone
    /\ billingEntries' = DeleteMany(billingEntries, del.id)
    /\ del' = [del EXCEPT !.billingDone = TRUE]
    /\ UNCHANGED <<cases, repairOrders, costs, nextId, resp, posts>>
    /\ StoreFrame

\* after Promise.all: casesCollection.deleteOne({ _id }), then 404 or 200
DeleteCase ==
    /\ del.pc = "children"
    /\ del.repairOrdersDone
    /\ del.billingDone
    /\ cases' = {c \in cases : c.id # del.id}
    /\ resp' = Response("DELETE /api/cases/[id]",
                        IF \E c \in cases : c.id = del.id THEN 200 ELSE 404,
                        del.id)
    /\ del' = NoRequest
    /\ UNCHANGED <<repairOrders, billingEntries, costs, nextId, posts>>
    /\ StoreFrame

StoreNext ==
    \/ PostCost
    \/ PostCostRespond
    \/ PostRepairOrders
    \/ PostRepairOrdersRespond
    \/ PostBilling
    \/ PostBillingRespond
    \/ DeleteRepairOrderFind
    \/ DeleteRepairOrderDeleteOne
    \/ DeleteRepairOrderRespond
    \/ DeleteBegin
    \/ DeleteRepairOrders
    \/ DeleteBilling
    \/ DeleteCase
    \/ ClearCases
    \/ ClearRepairOrders
    \/ ClearBillingEntries
    \/ ClearCosts

---------------------------------------------------------------------------
(* Concurrent requests: every call of calculateLaffeyComparison has its own *)
(* locals; the steps of different calls interleave at any point.            *)

\* the calls in flight at once
Calls == {1, 2}

CallPool ==
    {BillingEntry("A", 5, 500, <<9>>), BillingEntry("B", 10, 600, <<22>>)}

IdleCall ==
    [pc |-> "idle", entries |-> <<>>, i |-> 0, byAttorney |-> <<>>,
     result |-> <<>>, totalBilled |-> Num(0), totalLaffey |-> Num(0),
     ret |-> <<>>]

ConcurrentInit ==
    /\ entries = <<>>
    /\ laffeyMatrix = Matrix2024
    /\ attorneys = NoRoster
    /\ pc = "calls"
    /\ i = 0
    /\ byAttorney = <<>>
    /\ yearsExp = <<>>
    /\ result = <<>>
    /\ totalBilled = Num(0)
    /\ totalLaffey = Num(0)
    /\ ret = <<>>
    /\ TierIdle
    /\ doc = <<>>
    /\ StoreIdle
    /\ calls = [c \in Calls |-> IdleCall]
    /\ MoreIdle

CallFrame == UNCHANGED <<entries, laffeyMatrix, attorneys, pc, calcVars,
                         tierVars, doc, storeVars, moreVars>>

\* a Map of a call other than the one running
SharedMap(cs, c) == cs[1].byAttorney

\* const byAttorney = new Map(): the Map a call works on is its own local
OwnMap(cs, c) == cs[c].byAttorney

\* a request arrives and the function is entered with its entries
CallBegin(c) ==
    /\ calls[c].pc \in {"idle", "done"}
    /\ \E es \in SeqsUpTo(CallPool, MaxEntries) :
          calls' = [calls EXCEPT ![c] =
                       [IdleCall EXCEPT !.pc = "aggregate", !.entries = es]]
    /\ CallFrame

\* one iteration of the first loop of call c
CallAggregateStep(c) ==
    /\ calls[c].pc = "aggregate"
    /\ calls[c].i < Len(calls[c].entries)
    /\ calls' = [calls EXCEPT
                   ![c].byAttorney =
                       AggregateEntry(OwnMap(calls, c),
                                      calls[c].entries[calls[c].i + 1],
                                      attorneys),
                   ![c].i = @ + 1]
    /\ CallFrame

\* the first loop of call c ends
CallAggregateDone(c) ==
    /\ calls[c].pc = "aggregate"
    /\ calls[c].i = Len(calls[c].entries)
    /\ calls' = [calls EXCEPT ![c].pc = "compare"]
    /\ CallFrame

\* one iteration of the second loop of call c
CallCompareStep(c) ==
    /\ calls[c].pc = "compare"
    /\ Len(calls[c].result) < Len(OwnMap(calls, c))
    /\ LET row == ComparisonRow(
                      OwnMap(calls, c)[Len(calls[c].result) + 1], laffeyMatrix)
       IN  calls' = [calls EXCEPT
                       ![c].result = Append(@, row),
                       ![c].totalBilled = Add(@, row.billedAmount),
                       ![c].totalLaffey = Add(@, row.laffeyAmount)]
    /\ CallFrame

\* call c returns
CallReturn(c) ==
    /\ calls[c].pc = "compare"
    /\ Len(calls[c].result) = Len(OwnMap(calls, c))
    /\ calls' = [calls EXCEPT
                   ![c].ret = <<ComparisonResult(calls[c].totalBilled,
                                                 calls[c].totalLaffey,
                                                 calls[c].result)>>,
                   ![c].pc = "done"]
    /\ CallFrame

ConcurrentNext ==
    \E c \in Calls :
        \/ CallBegin(c)
        \/ CallAggregateStep(c)
        \/ CallAggregateDone(c)
        \/ CallCompareStep(c)
        \/ CallReturn(c)

---------------------------------------------------------------------------
(* The cases collection: POST /api/cases and PUT /api/cases/[id], next to  *)
(* the scripts.                                                             *)

\* the POST /api/cases requests that can be in flight at once
PostRequests == {1, 2}

IdlePost == [pc |-> "idle", caseNumber |-> "", status |-> 0, inserted |-> <<>>]

CaseInit ==
    /\ entries = <<>>
    /\ laffeyMatrix = Matrix2024
    /\ attorneys = NoRoster
    /\ pc = "cases"
    /\ i = 0
    /\ byAttorney = <<>>
    /\ yearsExp = <<>>
    /\ result = <<>>
    /\ totalBilled = Num(0)
    /\ totalLaffey = Num(0)
    /\ ret = <<>>
    /\ TierIdle
    /\ doc = <<>>
    /\ cases \in {{CaseDoc(id) : id \in S} : S \in SUBSET CaseIds}
    /\ repairOrders = {}
    /\ billingEntries = {}
    /\ costs = {}
    /\ indexes = {}
    /\ script = NoScript
    /\ nextId = 0
    /\ del = NoRequest
    /\ resp = NoResponse
    /\ calls = <<>>
    /\ posts = [p \in PostRequests |-> IdlePost]
    /\ conn = <<>>
    /\ detect = <<>>
    /\ req = <<>>

CaseFrame == UNCHANGED <<entries, laffeyMatrix, attorneys, pc, calcVars,
                         tierVars, doc, repairOrders, billingEntries, costs,
                         indexes, script, del, calls, conn, detect, req>>

\* POST /api/cases up to the check: findOne({ caseNumber }), 400 if found
PostCaseCheck(p) ==
    /\ posts[p].pc \in {"idle", "done"}
    /\ nextId + Cardinality({q \in PostRequests : posts[q].pc = "insert"})
          < MaxDocs
    /\ \E n \in CaseNumbers :
          LET existing == \E c \in cases : c.caseNumber = n
          IN  posts' = [posts EXCEPT ![p] =
                  IF existing
                  THEN [IdlePost EXCEPT !.pc = "done", !.caseNumber = n,
                                        !.status = 400]
                  ELSE [IdlePost EXCEPT !.pc = "insert", !.caseNumber = n]]
    /\ UNCHANGED <<cases, nextId, resp>>
    /\ CaseFrame

\* POST /api/cases from insertOne(newCase): 201, or 500 when insertOne throws
PostCaseInsert(p) ==
    /\ posts[p].pc = "insert"
    /\ IF IndexAllows(cases, posts[p].caseNumber)
       THEN LET id == IdString(24, TRUE, Cardinality(CaseIds) + nextId + 1)
            IN  /\ cases' = cases \cup
                       {[id |-> id, caseNumber |-> posts[p].caseNumber]}
                /\ nextId' = nextId + 1
                /\ posts' = [posts EXCEPT ![p].pc = "done",
                                          ![p].status = 201,
                                          ![p].inserted = <<id>>]
       ELSE /\ posts' = [posts EXCEPT ![p].pc = "done", ![p].status = 500]
            /\ UNCHANGED <<cases, nextId>>
    /\ UNCHANGED resp
    /\ CaseFrame

\* PUT /api/cases/[id]: findOneAndUpdate with the fields the body defines;
\* body is <<>> when it carries no caseNumber
PutCase ==
    /\ pc = "cases"
    /\ \E id \in RequestIds \cup {c.id : c \in cases},
          body \in {<<>>} \cup {<<n>> : n \in CaseNumbers} :
          LET hit == {c \in cases : c.id = id}
              others == cases \ hit
          IN  IF ~ObjectIdIsValid(id)
              THEN /\ resp' = Response("PUT /api/cases/[id]", 400, id)
                   /\ UNCHANGED cases
              ELSE IF body # <<>> /\ hit # {} /\ ~IndexAllows(others, body[1])
              THEN /\ resp' = Response("PUT /api/cases/[id]", 500, id)
                   /\ UNCHANGED cases
              ELSE IF hit = {}
              THEN /\ resp' = Response("PUT /api/cases/[id]", 404, id)
                   /\ UNCHANGED cases
              ELSE /\ resp' = Response("PUT /api/cases/[id]", 200, id)
                   /\ cases' = IF body = <<>> THEN cases
                               ELSE others \cup
                                      {[id |-> id, caseNumber |-> body[1]]}
    /\ UNCHANGED <<nextId, posts>>
    /\ CaseFrame

CaseNext ==
    \/ \E p \in PostRequests : PostCaseCheck(p)
    \/ \E p \in PostRequests : PostCaseInsert(p)
    \/ PutCase
    \/ SetupCreateIndex
    \/ SetupDeleteCases
    \/ SetupInsertCase
    \/ SetupInsertRepairOrder
    \/ ClearCases
    \/ ClearRepairOrders
    \/ ClearBillingEntries
    \/ ClearCosts

---------------------------------------------------------------------------
(* app/api/extract/route.ts: detectDocumentType and extractByType.          *)
(* A text is kept as the set of keyword occurrences in it; an occurrence    *)
(* is written in lower case or not.                                         *)

costsKeywords ==
    {"filing fee", "service of process", "court reporter", "deposition cost",
     "expert fee", "mediation fee", "appearance fee", "transcript",
     "cost memo", "cost bill"}

billingKeywords ==
    {"billable", "hours", "hourly rate", "time entry", "attorney fees",
     "legal services", "professional services"}

repairKeywords ==
    {"repair order", "work order", "service order", "mileage",
     "customer concern", "work performed", "parts replaced", "dealership",
     "vin"}

Occurrence(word, upper) == [word |-> word, upper |-> upper]

\* text.toLowerCase(): every occurrence becomes the lower-case keyword
toLowerCase(text) == {Occurrence(t.word, FALSE) : t \in text}

\* keywords.filter((k) => lowerText.includes(k)).length
KeywordScore(lowerText, keywords) ==
    Cardinality({k \in keywords : Occurrence(k, FALSE) \in lowerText})

detectDocumentType(text) ==
    LET lowerText == toLowerCase(text)
        costsScore == KeywordScore(lowerText, costsKeywords)
        billingScore == KeywordScore(lowerText, billingKeywords)
        repairScore == KeywordScore(lowerText, repairKeywords)
    IN  IF costsScore >= 2 THEN "costs"
        ELSE IF billingScore > repairScore THEN "billing"
        ELSE IF repairScore > 0 THEN "repair_orders"
        ELSE "repair_orders"

\* switch (type): the extractor that is called
extractByType(type) ==
    CASE type = "costs" -> "extractCosts"
      [] type = "billing" -> "extractBillingEntries"
      [] OTHER -> "extractRepairOrders"

\* the keyword occurrences the texts are made of
OccurrencePool ==
    {Occurrence(w, FALSE) :
        w \in {"filing fee", "transcript", "cost bill", "billable", "hours",
               "hourly rate", "mileage", "vin"}}
    \cup {Occurrence("filing fee", TRUE), Occurrence("vin", TRUE)}

\* formData.get("type"): null (<<>>), or the string of the form field
DocTypeFields ==
    {<<>>} \cup {<<t>> : t \in {"", "repair_orders", "billing", "costs",
                                "unknown"}}

DetectInit ==
    /\ entries = <<>>
    /\ laffeyMatrix = Matrix2024
    /\ attorneys = NoRoster
    /\ pc = "extract"
    /\ i = 0
    /\ byAttorney = <<>>
    /\ yearsExp = <<>>
    /\ result = <<>>
    /\ totalBilled = Num(0)
    /\ totalLaffey = Num(0)
    /\ ret = <<>>
    /\ TierIdle
    /\ doc = <<>>
    /\ StoreIdle
    /\ calls = <<>>
    /\ posts = <<>>
    /\ conn = <<>>
    /\ detect \in {[docType |-> d, text |-> t, detected |-> <<>>,
                      type |-> <<>>, extractor |-> <<>>] :
                     d \in DocTypeFields, t \in SUBSET OccurrencePool}
    /\ req = <<>>

DetectFrame == UNCHANGED <<entries, laffeyMatrix, attorneys, pc, calcVars,
                           tierVars, doc, storeVars, calls, posts, conn, req>>

\* const detectedType = docType || detectDocumentType(rawText): the
\* function is called only when the form field is null or empty
CallDetectDocumentType ==
    /\ pc = "extract"
    /\ detect.type = <<>>
    /\ IF detect.docType # <<>> /\ detect.docType[1] # ""
       THEN detect' = [detect EXCEPT !.type = detect.docType]
       ELSE detect' = [detect EXCEPT
                         !.detected = <<detectDocumentType(detect.text)>>,
                         !.type = <<detectDocumentType(detect.text)>>]
    /\ DetectFrame

\* extractedData = await extractByType(rawText, detectedType)
CallExtractByType ==
    /\ pc = "extract"
    /\ detect.type # <<>>
    /\ detect.extractor = <<>>
    /\ detect' = [detect EXCEPT !.extractor = <<extractByType(detect.type[1])>>]
    /\ DetectFrame

DetectNext ==
    \/ CallDetectDocumentType
    \/ CallExtractByType

---------------------------------------------------------------------------
(* lib/mongodb.ts: connectToDatabase with its module-level cache.           *)

\* the concurrent callers of connectToDatabase
Callers == {1, 2, 3}

IdleCaller == [pc |-> "idle", client |-> <<>>, got |-> <<>>]

ConnInit ==
    /\ entries = <<>>
    /\ laffeyMatrix = Matrix2024
    /\ attorneys = NoRoster
    /\ pc = "connect"
    /\ i = 0
    /\ byAttorney = <<>>
    /\ yearsExp = <<>>
    /\ result = <<>>
    /\ totalBilled = Num(0)
    /\ totalLaffey = Num(0)
    /\ ret = <<>>
    /\ TierIdle
    /\ doc = <<>>
    /\ StoreIdle
    /\ calls = <<>>
    /\ posts = <<>>
    /\ conn = [cachedClient |-> <<>>, cachedDb |-> <<>>, connects |-> 0,
               callers |-> [c \in Callers |-> IdleCaller]]
    /\ detect = <<>>
    /\ req = <<>>

ConnFrame == UNCHANGED <<entries, laffeyMatrix, attorneys, pc, calcVars,
                         tierVars, doc, storeVars, calls, posts, detect, req>>

\* the call up to its await: return the cached pair, or start
\* MongoClient.connect(MONGODB_URI)
ConnectEnter(c) ==
    /\ conn.callers[c].pc \in {"idle", "done"}
    /\ IF conn.cachedClient # <<>> /\ conn.cachedDb # <<>>
       THEN conn' = [conn EXCEPT
                       !.callers[c] = [pc |-> "done", client |-> <<>>,
                                       got |-> conn.cachedClient]]
       ELSE conn' = [conn EXCEPT
                       !.connects = @ + 1,
                       !.callers[c] = [pc |-> "connecting",
                                       client |-> <<conn.connects + 1>>,
                                       got |-> <<>>]]
    /\ ConnFrame

\* the await resolves: cachedClient = client; cachedDb = db; return both
ConnectResolve(c) ==
    /\ conn.callers[c].pc = "connecting"
    /\ conn' = [conn EXCEPT
                  !.cachedClient = conn.callers[c].client,
                  !.cachedDb = conn.callers[c].client,
                  !.callers[c] = [pc |-> "done", client |-> <<>>,
                                  got |-> conn.callers[c].client]]
    /\ ConnFrame

ConnNext ==
    \E c \in Callers :
        \/ ConnectEnter(c)
        \/ ConnectResolve(c)

---------------------------------------------------------------------------
(* POST /api/generate as a whole: the request's optional parts decide       *)
(* whether the comparison is computed and what the document prints.         *)

\* billing is absent, present without entries, or present with entries;
\* totalHours and totalFees are whatever the client sent
Requests ==
    [type : DocTypes,
     hasMatrix : BOOLEAN,
     billing : {"absent", "noEntries", "entries"},
     totalHours : {5, 10},
     totalFees : {0, 2500, 3000}]

RequestPool ==
    {BillingEntry("A", 5, 500, <<9>>), BillingEntry("B", 5, 600, <<22>>)}

RequestInit ==
    /\ req \in Requests
    /\ entries \in IF req.billing = "entries"
                   THEN SeqsUpTo(RequestPool, MaxEntries)
                   ELSE {<<>>}
    /\ laffeyMatrix = Matrix2024
    /\ attorneys = NoRoster
    /\ pc = "request"
    /\ i = 0
    /\ byAttorney = <<>>
    /\ yearsExp = <<>>
    /\ result = <<>>
    /\ totalBilled = Num(0)
    /\ totalLaffey = Num(0)
    /\ ret = <<>>
    /\ TierIdle
    /\ doc = <<>>
    /\ StoreIdle
    /\ calls = <<>>
    /\ posts = <<>>
    /\ conn = <<>>
    /\ detect = <<>>

\* the test with the entries left out
ComputesWithMatrixOnly(request) == request.hasMatrix

\* laffeyMatrix && billing?.entries
ComputesComparison(request) ==
    request.hasMatrix /\ request.billing = "entries"

\* billing?.totalHours?.toFixed(1) || "0"
PrintedTotalHours(request) ==
    IF request.billing = "absent" THEN Text("0")
    ELSE toFixed1(request.totalHours)

\* the motion's section A: billing?.totalHours?.toFixed(1) || "N/A"
PrintedMotionHours(request) ==
    IF request.billing = "absent" THEN Text("N/A")
    ELSE toFixed1(request.totalHours)

\* formatCurrency(billing?.totalFees || 0)
PrintedTotalFees(request) ==
    IF request.billing = "absent" \/ request.totalFees = 0
    THEN formatCurrency(Num(0))
    ELSE formatCurrency(Num(request.totalFees))

\* what the generated document prints besides the comparison: the fee
\* totals and, in the full package, Exhibit C and the references to it
Printed(request, lc) ==
    LET withTotals == request.type \in {"motion", "billing_summary",
                                        "full_package"}
        package == request.type = "full_package"
    IN  [totalHours |-> IF request.type = "motion"
                        THEN PrintedMotionHours(request)
                        ELSE IF withTotals THEN PrintedTotalHours(request)
                        ELSE Text(""),
         totalFees |-> IF withTotals THEN PrintedTotalFees(request)
                       ELSE Text(""),
         exhibitC |-> package /\ lc # <<>>,
         exhibitList |-> package /\ lc # <<>>,
         proofOfService |-> package /\ lc # <<>>]

\* POST up to the switch: the comparison is computed or is null
PostCompute ==
    /\ pc = "request"
    /\ pc' = IF ComputesComparison(req) THEN "aggregate" ELSE "done"
    /\ UNCHANGED <<entries, laffeyMatrix, attorneys, calcVars, tierVars,
                   extVars>>

\* POST from the switch: the document, or 400 for an unknown type
PostRespond ==
    /\ pc = "done"
    /\ req # <<>>
    /\ doc = <<>>
    /\ doc' = <<SwitchType(req.type, ret, entries) @@ Printed(req, ret)>>
    /\ UNCHANGED <<entries, laffeyMatrix, attorneys, pc, calcVars, tierVars,
                   storeVars, calls, moreVars>>

RequestNext ==
    \/ PostCompute
    \/ AggregateStep
    \/ AggregateDone
    \/ CompareStep
    \/ Return
    \/ PostRespond

Next ==
    \/ AggregateStep
    \/ AggregateDone
    \/ CompareStep
    \/ Return

TierNext ==
    \/ CallGetLaffeyTier
    \/ CallCalculateLaffeyRate

DocumentNext ==
    \/ AggregateStep
    \/ AggregateDone
    \/ CompareStep
    \/ Return
    \/ PostGenerate
    \/ PostGenerateFirst

Spec == Init /\ [][Next]_vars
ConcurrentSpec == ConcurrentInit /\ [][ConcurrentNext]_vars
RequestSpec == RequestInit /\ [][RequestNext]_vars
ConnSpec == ConnInit /\ [][ConnNext]_vars
DetectSpec == DetectInit /\ [][DetectNext]_vars
CaseSpec == CaseInit /\ [][CaseNext]_vars
StoreSpec == StoreInit /\ [][StoreNext]_vars
DocumentSpec == ScheduleInit /\ [][DocumentNext]_vars
InputSpec == InputInit /\ [][Next]_vars
ScheduleSpec == ScheduleInit /\ [][Next]_vars
TierSpec == TierInit /\ [][TierNext]_vars

\* the stepwise run returns what the function computes
StepwiseAgrees ==
    /\ pc = "aggregate" => byAttorney = AggregateAll(SubSeq(entries, 1, i), attorneys)
    /\ pc = "done" =>
          ret = <<calculateLaffeyComparison(entries, laffeyMatrix, attorneys)>>

---------------------------------------------------------------------------
(* Claims.                                                                  *)

\* the tier table of the specification, by ranges
TierOfRange(y) ==
    CASE y \in 0..3 -> "tier1to3"
      [] y \in 4..7 -> "tier4to7"
      [] y \in 8..10 -> "tier8to10"
      [] y \in 11..19 -> "tier11to19"
      [] y >= 20 -> "tier20Plus"

RateOfTier(t, matrix) ==
    CASE t = "tier1to3" -> matrix.tier1to3Rate
      [] t = "tier4to7" -> matrix.tier4to7Rate
      [] t = "tier8to10" -> matrix.tier8to10Rate
      [] t = "tier11to19" -> matrix.tier11to19Rate
      [] t = "tier20Plus" -> matrix.tier20PlusRate

\* C1: for every non-negative yearsExperience both resolvers pick the tier
\* by inclusive upper bounds 3, 7, 10, 19, and everything from 20 up is the
\* top tier.
C1_TierBoundaries ==
    yearsIn >= 0 =>
        /\ tierOut # <<>> => tierOut[1] = TierOfRange(yearsIn)
        /\ rateOut # <<>> =>
              rateOut[1] = Num(RateOfTier(TierOfRange(yearsIn), laffeyMatrix))

C1_Witness ==
    /\ yearsIn = 4
    /\ tierOut = <<"tier4to7">>
    /\ rateOut = <<Num(laffeyMatrix.tier4to7Rate)>>

\* C10: a negative yearsExperience is never mapped to a tier or a rate by
\* the resolvers.
C10_NegativeYearsRejected ==
    yearsIn < 0 => tierOut = <<>> /\ rateOut = <<>>

RECURSIVE DirectSum(_)
DirectSum(es) ==
    IF es = <<>> THEN 0
    ELSE DirectSum(SubSeq(es, 1, Len(es) - 1))
         + es[Len(es)].hours * es[Len(es)].rate

\* C2: for a non-empty entry list the returned totalBilled is the direct
\* sum of hours * rate over the raw entries.
C2_TotalBilledIsDirectSum ==
    (pc = "done" /\ entries # <<>>) =>
        ret[1].totalBilled = Num(DirectSum(entries))

\* the entries of one attorney among the first n entries, in order
RECURSIVE EntriesOf(_, _, _)
EntriesOf(es, n, name) ==
    IF n = 0 THEN <<>>
    ELSE IF es[n].attorney = name
         THEN Append(EntriesOf(es, n - 1, name), es[n])
         ELSE EntriesOf(es, n - 1, name)

RECURSIVE HoursSum(_)
HoursSum(es) ==
    IF es = <<>> THEN 0
    ELSE HoursSum(SubSeq(es, 1, Len(es) - 1)) + es[Len(es)].hours

\* C3: after any prefix, for every attorney of the aggregate, hours is the
\* sum of the attorney's hours and blendedRate * hours is the sum of their
\* hours * rate; a first entry sets the rate and the hours; two entries of
\* equal hours blend to (R1 + R2) / 2.
C3_BlendedRateInvariant ==
    pc = "aggregate" =>
        \A k \in 1..Len(byAttorney) :
            LET own == EntriesOf(entries, i, byAttorney[k].attorney)
            IN  /\ byAttorney[k].hours = HoursSum(own)
                /\ Mul(byAttorney[k].billedRate, Num(byAttorney[k].hours))
                      = Num(DirectSum(own))
                /\ Len(own) = 1 =>
                      /\ byAttorney[k].billedRate = Num(own[1].rate)
                      /\ byAttorney[k].hours = own[1].hours
                /\ (Len(own) = 2 /\ own[1].hours = own[2].hours) =>
                      byAttorney[k].billedRate
                        = Div(Num(own[1].rate + own[2].rate), Num(2))

\* the resolution order of the specification: own value if present, else
\* the roster's exact-name match, else the default
PresentFirstYears(entry, roster) ==
    IF entry.yearsExperience # <<>> THEN entry.yearsExperience[1]
    ELSE IF RosterYears(roster, entry.attorney) # <<>>
         THEN RosterYears(roster, entry.attorney)[1]
         ELSE DefaultYearsExperience

\* C4: the experience used for an entry is its own yearsExperience when
\* present (0 included), else the exact-name roster record's, else 5.
C4_ExperiencePrecedence ==
    (pc = "aggregate" /\ i > 0) =>
        yearsExp = <<PresentFirstYears(entries[i], attorneys)>>

\* all orderings of a sequence
Orderings(es) ==
    {[k \in 1..Len(es) |-> es[f[k]]] : f \in Permutations(1..Len(es))}

SameComparison(a, b) ==
    /\ a.totalBilled = b.totalBilled
    /\ a.totalLaffey = b.totalLaffey
    /\ a.difference = b.difference
    /\ a.isUnderLaffey = b.isUnderLaffey
    /\ {a.byAttorney[k] : k \in 1..Len(a.byAttorney)}
         = {b.byAttorney[k] : k \in 1..Len(b.byAttorney)}

\* C5: the result does not depend on the order of the entries: every
\* permutation of the list gives the same rows and the same totals.
C5_OrderIndependent ==
    pc = "done" =>
        \A p \in Orderings(entries) :
            SameComparison(ret[1],
                calculateLaffeyComparison(p, laffeyMatrix, attorneys))

\* C6: the returned difference is totalLaffey - totalBilled, and it is
\* non-negative exactly when isUnderLaffey is true.
C6_DifferenceIsBenchmarkMinusBilled ==
    pc = "done" =>
        /\ ret[1].difference = Sub(ret[1].totalLaffey, ret[1].totalBilled)
        /\ Leq(Num(0), ret[1].difference) <=> ret[1].isUnderLaffey

C6_Witness ==
    /\ pc = "done"
    /\ Len(ret[1].byAttorney) = 2
    /\ IsFinite(ret[1].difference)
    /\ ret[1].difference[1] < 0
    /\ ~ret[1].isUnderLaffey

\* C7: isUnderLaffey is true exactly when totalBilled <= totalLaffey,
\* equality included: when every attorney bills the benchmark rate of
\* their tier the difference is 0 and the flag is true.
C7_UnderLaffeyIsNonStrict ==
    pc = "done" =>
        LET r == ret[1]
        IN  /\ r.isUnderLaffey <=>
                  /\ IsFinite(r.totalBilled)
                  /\ IsFinite(r.totalLaffey)
                  /\ CompareExact(r.totalBilled, r.totalLaffey) <= 0
            /\ (\A k \in 1..Len(r.byAttorney) :
                    r.byAttorney[k].billedRate = r.byAttorney[k].laffeyRate)
                  => r.difference = Num(0) /\ r.isUnderLaffey

C7_Witness ==
    /\ pc = "done"
    /\ entries = <<BillingEntry("A", 10, 402, <<3>>),
                   BillingEntry("B", 10, 822, <<22>>)>>
    /\ ret[1].byAttorney[1].laffeyRate = Num(402)
    /\ ret[1].byAttorney[2].laffeyRate = Num(822)
    /\ ret[1].totalBilled = Num(12240)
    /\ ret[1].difference = Num(0)
    /\ ret[1].isUnderLaffey

\* C8: an entry with hours = 0 leaves the attorney's existing blended rate
\* unchanged, and no aggregate ever holds a NaN or infinite blended rate.
C8_ZeroHoursIsNoOp ==
    /\ \A k \in 1..Len(byAttorney) : IsFinite(byAttorney[k].billedRate)
    /\ (pc = "aggregate" /\ i > 0 /\ entries[i].hours = 0) =>
          LET prev == AggregateAll(SubSeq(entries, 1, i - 1), attorneys)
              k == MapIndex(prev, entries[i].attorney)
          IN  k # 0 => byAttorney[k].billedRate = prev[k].billedRate

\* C9: when any entry has hours < 0 the calculation is rejected before any
\* partial total is computed, and no result is returned.
C9_NegativeHoursRejected ==
    (\E k \in 1..Len(entries) : entries[k].hours < 0) =>
        /\ byAttorney = <<>>
        /\ result = <<>>
        /\ ret = <<>>

\* C11: no undefined rate is ever returned for an attorney or multiplied
\* into laffeyAmount or totalLaffey: a schedule that lacks the tier's rate
\* is rejected instead.
C11_IncompleteScheduleRejected ==
    /\ \A k \in 1..Len(result) :
          /\ result[k].laffeyRate # Undefined
          /\ ~IsNaN(result[k].laffeyAmount)
    /\ ~IsNaN(totalLaffey)
    /\ ret # <<>> => ~IsNaN(ret[1].totalLaffey)

AttorneysOf(es) == {es[k].attorney : k \in 1..Len(es)}

\* C12: when the rate of any one attorney cannot be resolved no result is
\* returned, and a returned result has a row for every attorney of the
\* entries.
C12_ResolutionFailureFailsWhole ==
    /\ (\E k \in 1..Len(byAttorney) :
           calculateLaffeyRate(byAttorney[k].yearsExperience, laffeyMatrix)
             = Undefined)
          => ret = <<>>
    /\ ret # <<>> => AttorneysOf(ret[1].byAttorney) = AttorneysOf(entries)

ScenarioEntries ==
    <<BillingEntry("A", 10, 500, <<9>>), BillingEntry("A", 5, 600, <<9>>)>>

\* the tolerance 1e-6 within which the specification compares amounts
Tolerance == Div(Num(1), Num(1000000))

\* |a - b| <= 1e-6 for finite a and b
Near(a, b) ==
    /\ IsFinite(a)
    /\ IsFinite(b)
    /\ CompareExact(Sub(a, b), Tolerance) <= 0
    /\ CompareExact(Neg(Tolerance), Sub(a, b)) <= 0

\* C19: A with 10 h at 500 and 5 h at 600, 9 years, tier8to10Rate 585:
\* one row with 15 hours and benchmark amount 8775, at or below the
\* benchmark, and, within the tolerance 1e-6, blended rate 8000/15,
\* billed amount 8000 and difference 775.
C19_Scenario ==
    (/\ pc = "done"
     /\ entries = ScenarioEntries
     /\ MatrixRate(laffeyMatrix, "tier8to10Rate") = Num(585)) =>
        /\ Len(ret[1].byAttorney) = 1
        /\ ret[1].byAttorney[1].attorney = "A"
        /\ ret[1].byAttorney[1].hours = 15
        /\ Near(ret[1].byAttorney[1].billedRate,
                Div(Num(10 * 500 + 5 * 600), Num(15)))
        /\ ret[1].byAttorney[1].laffeyRate = Num(585)
        /\ Near(ret[1].byAttorney[1].billedAmount, Num(8000))
        /\ ret[1].byAttorney[1].laffeyAmount = Num(8775)
        /\ Near(ret[1].totalBilled, Num(8000))
        /\ ret[1].totalLaffey = Num(8775)
        /\ Near(ret[1].difference, Num(775))
        /\ ret[1].isUnderLaffey

\* the scenario has returned; the billed total is the double next above
\* 8000 that 15 * (8000 / 15) gives
C19_Witness ==
    /\ pc = "done"
    /\ entries = ScenarioEntries
    /\ laffeyMatrix = Matrix2024
    /\ Len(ret[1].byAttorney) = 1
    /\ ret[1].totalBilled = Mul(Num(15), Div(Num(8000), Num(15)))
    /\ ret[1].totalBilled # Num(8000)
    /\ ret[1].isUnderLaffey

\* C13: an empty entry list returns zero totals, difference 0,
\* isUnderLaffey true and an empty breakdown.
C13_EmptyInput ==
    (pc = "done" /\ entries = <<>>) =>
        ret = <<[totalBilled |-> Num(0),
                 totalLaffey |-> Num(0),
                 difference |-> Num(0),
                 isUnderLaffey |-> TRUE,
                 byAttorney |-> <<>>]>>

C13_Witness ==
    /\ pc = "done"
    /\ entries = <<>>
    /\ ret # <<>>
    /\ ret[1].byAttorney = <<>>
    /\ ret[1].isUnderLaffey

\* the attorney names of a list in the order of their first entry
RECURSIVE FirstAppearance(_)
FirstAppearance(es) ==
    IF es = <<>> THEN <<>>
    ELSE LET front == FirstAppearance(SubSeq(es, 1, Len(es) - 1))
             name == es[Len(es)].attorney
         IN  IF \E k \in 1..Len(front) : front[k] = name
             THEN front
             ELSE Append(front, name)

\* C14: the breakdown has exactly one row per distinct attorney, in the
\* order of each attorney's first entry.
C14_RowsInFirstAppearanceOrder ==
    pc = "done" =>
        [k \in 1..Len(ret[1].byAttorney) |-> ret[1].byAttorney[k].attorney]
          = FirstAppearance(entries)

C14_Witness ==
    /\ pc = "done"
    /\ Len(entries) = 3
    /\ entries[1].attorney = "B"
    /\ entries[2].attorney = "A"
    /\ entries[3].attorney = "B"
    /\ Len(ret[1].byAttorney) = 2
    /\ ret[1].byAttorney[1].attorney = "B"
    /\ ret[1].byAttorney[2].attorney = "A"

\* C16: no step of the calculation changes the entries, the schedule or
\* the roster it was given.
C16_InputsUnchanged ==
    [][/\ entries' = entries
       /\ laffeyMatrix' = laffeyMatrix
       /\ attorneys' = attorneys]_vars

\* the running average has updated a Map record while the entries kept
\* their values
C16_Witness ==
    /\ pc = "done"
    /\ Len(entries) = 2
    /\ entries[1] = BillingEntry("A", 5, 402, <<3>>)
    /\ entries[2] = BillingEntry("A", 10, 822, <<3>>)
    /\ ret[1].byAttorney[1].hours = 15
    /\ ret[1].byAttorney[1].billedRate = Num(682)

\* the statements by which a document claims the fees or rates are below
\* the benchmark
BelowStatements == {"below_by", "consistent_and_in_fact_below_market"}

\* C17: a document says the fees are below the benchmark by `difference`
\* only when isUnderLaffey is true; when it is false it never says that
\* the fees exceed the benchmark nor that they are below it.
C17_NoNegativeFraming ==
    doc # <<>> =>
        \A k \in 1..Len(doc[1].statements) :
            LET st == doc[1].statements[k]
            IN  /\ st.says = "below_by" =>
                      /\ ret[1].isUnderLaffey
                      /\ st.amount = formatCurrency(ret[1].difference)
                /\ ~ret[1].isUnderLaffey =>
                      /\ st.says # "exceeds_by"
                      /\ st.says \notin BelowStatements

\* C18: every document's comparison table has the six-column header
\* (Attorney, Hours, Billed Rate, Laffey Rate, Billed Total, Laffey Total,
\* the benchmark being the Laffey schedule), one row per attorney of the
\* breakdown in breakdown order, then one totals row with totalBilled and
\* totalLaffey.
C18_TableShape ==
    (doc # <<>> /\ doc[1].table # <<>>) =>
        LET t == doc[1].table[1]
            n == Len(ret[1].byAttorney)
        IN  /\ t.headers = <<"Attorney", "Hours", "Billed Rate", "Laffey Rate",
                            "Billed Total", "Laffey Total">>
            /\ Len(t.rows) = n + 1
            /\ \A k \in 1..n :
                  /\ Len(t.rows[k]) = 6
                  /\ t.rows[k][1] = Text(ret[1].byAttorney[k].attorney)
            /\ Len(t.rows[n + 1]) = 6
            /\ t.rows[n + 1][5] = formatCurrency(ret[1].totalBilled)
            /\ t.rows[n + 1][6] = formatCurrency(ret[1].totalLaffey)

\* C20: after a successful DELETE of a case no repair order, billing entry
\* or cost of that case remains in the store.
C20_DeleteRemovesAllRelated ==
    (resp.handler = "DELETE /api/cases/[id]" /\ resp.status = 200) =>
        \A d \in repairOrders \cup billingEntries \cup costs :
            d.caseId # resp.id

\* C15: calls hold no state across each other: a finished call returns
\* what the function computes from its own inputs, so two finished calls
\* with equal inputs have equal results whatever ran before or in between.
C15_CallsAreIndependent ==
    /\ \A c \in DOMAIN calls :
          calls[c].pc = "done" =>
              calls[c].ret = <<calculateLaffeyComparison(calls[c].entries,
                                                         laffeyMatrix, attorneys)>>
    /\ \A c1, c2 \in DOMAIN calls :
          (/\ calls[c1].pc = "done"
           /\ calls[c2].pc = "done"
           /\ calls[c1].entries = calls[c2].entries)
              => calls[c1].ret = calls[c2].ret

\* call 2 has returned while call 1, begun with the same entries, is in
\* the middle of its first loop
C15_Witness ==
    /\ DOMAIN calls = Calls
    /\ calls[2].pc = "done"
    /\ calls[1].pc = "aggregate"
    /\ calls[1].i = 1
    /\ Len(calls[1].entries) = 2
    /\ calls[1].entries = calls[2].entries
    /\ calls[1].byAttorney # <<>>
    /\ Len(calls[2].ret[1].byAttorney) >= 1

\* the first entry of the list that names the attorney
FirstEntryOf(es, name) ==
    es[CHOOSE k \in 1..Len(es) :
          /\ es[k].attorney = name
          /\ \A m \in 1..(k - 1) : es[m].attorney # name]

\* C23: an attorney's benchmark rate is picked by the years of experience
\* resolved for the attorney's first entry; later entries do not change it.
C23_FirstEntryDecidesRate ==
    pc = "done" =>
        \A k \in 1..Len(ret[1].byAttorney) :
            LET row == ret[1].byAttorney[k]
            IN  row.laffeyRate =
                  calculateLaffeyRate(
                      ResolveYearsExp(FirstEntryOf(entries, row.attorney),
                                      attorneys),
                      laffeyMatrix)

C23_Witness ==
    /\ pc = "done"
    /\ Len(entries) = 2
    /\ entries[1] = BillingEntry("A", 5, 402, <<3>>)
    /\ entries[2] = BillingEntry("A", 10, 402, <<22>>)
    /\ ret[1].byAttorney[1].laffeyRate = Num(402)
    /\ ret[1].totalLaffey = Num(6030)

\* the schedule's five attorney rate fields
TierRateFields ==
    {"tier1to3Rate", "tier4to7Rate", "tier8to10Rate", "tier11to19Rate",
     "tier20PlusRate"}

\* the roster with every isParalegal flag cleared
ClearParalegal(roster) ==
    [roster EXCEPT
       !.list = [k \in 1..Len(roster.list) |->
                    [roster.list[k] EXCEPT !.isParalegal = FALSE]]]

\* C24: every benchmark rate is one of the schedule's five attorney tier
\* rates, and the result does not depend on paralegalRate nor on any
\* isParalegal flag of the roster.
C24_ParalegalNeverUsed ==
    pc = "done" =>
        /\ \A k \in 1..Len(ret[1].byAttorney) :
              ret[1].byAttorney[k].laffeyRate
                 \in {MatrixRate(laffeyMatrix, f) : f \in TierRateFields}
        /\ ret[1] = calculateLaffeyComparison(
                        entries,
                        [laffeyMatrix EXCEPT !.paralegalRate = 0],
                        ClearParalegal(attorneys))

\* the roster's only member for A is a paralegal with 2 years, and A is
\* benchmarked at the first attorney tier
C24_Witness ==
    /\ pc = "done"
    /\ attorneys = Roster(<<Member("A", 2, TRUE)>>)
    /\ Len(entries) = 1
    /\ entries[1].yearsExperience = <<>>
    /\ entries[1].hours = 5
    /\ ret[1].byAttorney[1].laffeyRate = Num(laffeyMatrix.tier1to3Rate)
    /\ ret[1].totalLaffey = Num(2010)

\* C25: in every returned result each row has billedAmount = hours *
\* billedRate and laffeyAmount = hours * laffeyRate, and the totals are the
\* sums of the rows' amounts.
C25_AmountsAndTotals ==
    pc = "done" =>
        /\ \A k \in 1..Len(ret[1].byAttorney) :
              LET row == ret[1].byAttorney[k]
              IN  /\ row.billedAmount = Mul(Num(row.hours), row.billedRate)
                  /\ row.laffeyAmount =
                        Mul(Num(row.hours), ToNumber(row.laffeyRate))
        /\ ret[1].totalBilled = SumAmounts(ret[1].byAttorney, "billedAmount")
        /\ ret[1].totalLaffey = SumAmounts(ret[1].byAttorney, "laffeyAmount")

C25_Witness ==
    /\ pc = "done"
    /\ Len(ret[1].byAttorney) = 2
    /\ ret[1].byAttorney[1].hours = 15
    /\ ret[1].byAttorney[1].billedAmount = Num(10230)
    /\ ret[1].byAttorney[2].billedAmount = Num(8220)
    /\ ret[1].totalBilled = Num(18450)
    /\ ret[1].totalLaffey = Num(14250)

\* the position of a tier in the schedule
TierRank(t) ==
    CASE t = "tier1to3" -> 1
      [] t = "tier4to7" -> 2
      [] t = "tier8to10" -> 3
      [] t = "tier11to19" -> 4
      [] t = "tier20Plus" -> 5

\* C26: calculateLaffeyRate(y, m) is the field of m named getLaffeyTier(y)
\* followed by "Rate", and the tier does not decrease when y grows.
C26_ResolversAgree ==
    /\ (tierOut # <<>> /\ rateOut # <<>>) =>
          rateOut[1] = MatrixRate(laffeyMatrix, tierOut[1] \o "Rate")
    /\ tierOut # <<>> =>
          \A y \in (0 - MaxNegYears)..yearsIn :
              TierRank(getLaffeyTier(y)) <= TierRank(tierOut[1])

C26_Witness ==
    /\ yearsIn = 10
    /\ tierOut = <<"tier8to10">>
    /\ rateOut = <<Num(laffeyMatrix.tier8to10Rate)>>
    /\ laffeyMatrix = Matrix2023

\* C21: no two stored cases share a caseNumber, and a POST /api/cases
\* that ended without inserting, its number being in use, answered 400.
C21_CaseNumbersUnique ==
    /\ \A c1, c2 \in cases : c1.caseNumber = c2.caseNumber => c1 = c2
    /\ \A p \in DOMAIN posts :
          posts[p].pc = "done" =>
              \/ posts[p].status = 201 /\ posts[p].inserted # <<>>
              \/ posts[p].status = 400 /\ posts[p].inserted = <<>>

\* C29: every stored repair order and billing entry carries the caseId of
\* an existing case.
C29_ReferentialIntegrity ==
    \A d \in repairOrders \cup billingEntries :
        \E c \in cases : c.id = d.caseId

\* the keyword score of a text for one document type
TypeScore(text, type) ==
    KeywordScore(toLowerCase(text),
                 CASE type = "costs" -> costsKeywords
                   [] type = "billing" -> billingKeywords
                   [] type = "repair_orders" -> repairKeywords)

ScoredTypes == {"costs", "billing", "repair_orders"}

\* C22: the detected type has the highest keyword score of the three, is
\* never "unknown", and is repair_orders for a text without any keyword.
C22_HighestScoreWins ==
    (pc = "extract" /\ detect.detected # <<>>) =>
        /\ detect.detected[1] \in ScoredTypes
        /\ \A t \in ScoredTypes :
              TypeScore(detect.text, t)
                 <= TypeScore(detect.text, detect.detected[1])
        /\ (\A t \in ScoredTypes : TypeScore(detect.text, t) = 0)
              => detect.detected[1] = "repair_orders"

\* C30: at most one MongoClient.connect is ever performed and all callers
\* that have returned hold the same client.
C30_SingleClient ==
    pc = "connect" =>
        /\ conn.connects <= 1
        /\ \A c1, c2 \in Callers :
              (conn.callers[c1].got # <<>> /\ conn.callers[c2].got # <<>>)
                 => conn.callers[c1].got = conn.callers[c2].got

RECURSIVE RowHours(_)
RowHours(rows) ==
    IF rows = <<>> THEN 0
    ELSE RowHours(SubSeq(rows, 1, Len(rows) - 1)) + rows[Len(rows)].hours

\* C27: in a billing summary or motion the printed Total Fees equals the
\* comparison's totalBilled, and the printed total hours equals the sum of
\* the per-attorney hours.
C27_PrintedTotalsAgree ==
    (/\ doc # <<>>
     /\ req # <<>>
     /\ ret # <<>>
     /\ Len(entries) > 0
     /\ req.type \in {"billing_summary", "motion"}) =>
        /\ doc[1].totalFees = formatCurrency(ret[1].totalBilled)
        /\ doc[1].totalHours = toFixed1(RowHours(ret[1].byAttorney))

\* C28: the comparison is computed exactly when the request carries a
\* laffeyMatrix and billing.entries; the package has Exhibit C and names it
\* in the exhibit list and the proof of service exactly when the comparison
\* was computed; an unknown type gives 400 and no document.
C28_ComparisonIffBothParts ==
    (doc # <<>> /\ req # <<>>) =>
        /\ (ret # <<>>) <=> (req.hasMatrix /\ req.billing = "entries")
        /\ req.type = "full_package" =>
              /\ doc[1].status = 200
              /\ doc[1].exhibitC = (ret # <<>>)
              /\ doc[1].exhibitList = (ret # <<>>)
              /\ doc[1].proofOfService = (ret # <<>>)
              /\ (doc[1].table # <<>>) = (ret # <<>>)
        /\ req.type = "other" =>
              /\ doc[1].status = 400
              /\ doc[1].statements = <<>>
              /\ doc[1].table = <<>>
              /\ ~doc[1].exhibitC
              /\ doc[1].totalFees = Text("")

\* a package for a request with schedule and entries: Exhibit C is there
C28_Witness ==
    /\ doc # <<>>
    /\ req # <<>>
    /\ req.type = "full_package"
    /\ req.hasMatrix
    /\ Len(entries) = 2
    /\ ret # <<>>
    /\ doc[1].exhibitC
    /\ doc[1].proofOfService
    /\ Len(doc[1].table[1].rows) >= 2

===========================================================================
